---- MODULE Spec2Model ----
(***************************************************************************)
(* A model of the surfari navigation agent: the tool executor, the value   *)
(* resolver chain, the embedded filesystem tool's path normalisation, the  *)
(* numeric masker, the OTP step rewriting and the turn loop with replay.   *)
(* Each subsystem has its own variables and its own specification; the     *)
(* variables of the other subsystems stay at their idle values.            *)
(***************************************************************************)
EXTENDS Integers, Sequences, FiniteSets, TLC

(***************************************************************************)
(* Bounds of the model.                                                    *)
(***************************************************************************)
MaxCalls == 2
MaxPathLen == 5
MaxSteps == 3
MaxOtpLen == 3
MaxResolveSteps == 2
MaxMaskTokens == 2
max_turns == 3
MaxRecordedTurns == 2

\* Python's None, where a string (a sequence of characters) or a Path is expected.
None == <<"None">>

Range(s) == {s[i] : i \in 1..Len(s)}

SeqsUpTo(S, n) == UNION {[1..k -> S] : k \in 0..n}

VARIABLES
    \* ---- tool executor (model/tool_executor.py) ----
    tool_calls_payload,   \* the "tool_calls" list handed to execute_tool_calls
    parallel,             \* the parallel flag
    raw_calls,            \* list(_extract_calls(payload))
    results,              \* per raw call: its ToolResult, or Pending while it runs
    completion_order,     \* indices of raw_calls in the order they completed
    tool_results,         \* the returned payload["tool_results"]
    exec_pc,              \* "idle" | "start" | "running" | "returned" | "raised"
    timeout,              \* the per-call timeout in seconds, 0 for none
    behaviours,           \* per raw call: what the tool did when it was called
    started               \* indices of raw_calls whose _execute_single was started

toolVars == <<tool_calls_payload, parallel, raw_calls, results,
              completion_order, tool_results, exec_pc, timeout, behaviours, started>>

VARIABLES
    \* ---- embedded filesystem tool (model/mcp/fs_http_embed.py) ----
    fs_path,              \* the client-supplied path p (a string, or None)
    fs_symlink,           \* whether <root>/a is a symbolic link leading out of the root
    fs_sub,               \* _normalize_subpath(p)
    fs_target,            \* the Path _resolve_safe returned, None before/without one
    fs_pc                 \* "idle" | "call" | "normalized" | "done" | "raised"

fsVars == <<fs_path, fs_symlink, fs_sub, fs_target, fs_pc>>

VARIABLES
    \* ---- OTP step rewriting (NavigationAgent._check_steps_for_otp_and_solve) ----
    otp_steps,            \* the steps of the turn, as handed in
    otp_code,             \* what GmailOTPClientAsync.get_otp_code() returns ("" for none)
    otp_replacements,     \* the returned count
    otp_updated_steps,    \* the returned steps (or the failure string)
    otp_steps_after,      \* run's `steps` after the call
    otp_pc                \* "idle" | "call" | "returned"

otpVars == <<otp_steps, otp_code, otp_replacements, otp_updated_steps,
             otp_steps_after, otp_pc>>

VARIABLES
    \* ---- value resolver chain (navigation_agent/_value_resolver.py) ----
    res_input,            \* the response as the model produced it
    res_resp,             \* `resp`, which the sentinel pass mutates in place
    res_out,              \* `out`, the deep copy the resolvers work on / the return value
    res_current_url,      \* context["current_url"]
    res_site_secrets,     \* SecretResolver.site_secrets
    res_resolver,         \* the configured resolver
    res_pc                \* "idle" | "call" | "sentinels" | "secrets" | "configured" | "returned"

resVars == <<res_input, res_resp, res_out, res_current_url, res_site_secrets,
             res_resolver, res_pc>>

VARIABLES
    \* ---- NumericMasker (security/data_masker.py) ----
    mask_text,               \* the text given to mask_sensitive_info, as its tokens
    donot_mask_terms,        \* self.donot_mask_terms
    donot_mask,              \* the donot_mask argument
    replacement_map,         \* self.replacement_map, in insertion order
    used_masked,             \* self.used_masked
    reverse_map,             \* self.reverse_map
    normalized_reverse_map,  \* self.normalized_reverse_map
    masked_tokens,           \* the tokens of masked_text produced so far
    unmasked_tokens,         \* the tokens unmask_sensitive_info returns
    mask_pc                  \* "idle" | "masking" | "masked" | "unmasked"

maskVars == <<mask_text, donot_mask_terms, donot_mask, replacement_map, used_masked,
              reverse_map, normalized_reverse_map, masked_tokens, unmasked_tokens,
              mask_pc>>

VARIABLES
    \* ---- NavigationAgent.run (navigation_agent/_navigation_agent.py) ----
    turns,                  \* the loop variable; 0 before the first turn
    run_pc,                 \* "idle" | "navigate" | "running" | "finally" | "done" |
                            \* "propagated" | "exited"
    record_and_replay,      \* self.record_and_replay
    using_recording,        \* self.using_recording
    recorded_chat_history,  \* record_and_replay_manager.recorded_chat_history
    chat_history,           \* self.chat_history
    task_successful,        \* task_successful
    recording,              \* the recording as it was loaded
    popped,                 \* how many messages of the recording were popped
    replayed,               \* positions in the recording of the responses replay returned
    success_fetched,        \* replay has fetched a recorded SUCCESS
    turn_source,            \* where the latest turn's decision came from
    turn_kind,              \* step_execution of the latest turn's decision
    reviewed,               \* the latest turn ran _verify_task_success_response
    review_decision,        \* what that review decided, "none" without a review
    save_successful_task_only,  \* the config value the finally block reads (default True)
    save_recording_called,  \* the finally block called save_recording
    reasoning,              \* run's `reasoning`: "" until a response sets it
    raised,                 \* the exception that left the turn loop or run(), "none" without one
    outcome,                \* how the run ended, "none" while it goes on
    answer,                 \* what run() returned
    exit_code               \* the exit code of the process, -1 while it runs

runVars == <<turns, run_pc, record_and_replay, using_recording, recorded_chat_history,
             chat_history, task_successful, recording, popped, replayed,
             success_fetched, turn_source, turn_kind, reviewed, review_decision,
             save_successful_task_only, save_recording_called, reasoning, raised,
             outcome, answer, exit_code>>

VARIABLES
    \* ---- RecordReplayManager.attempt_load_recorded_chat_history ----
    rr_loaded,                   \* recorded_chat_history as fetch_task_recording loaded it
    recorded_history_variables,  \* self.recorded_history_variables, in dict order
    current_variables,           \* self.current_variables, in dict order
    replaced_history,            \* replaced_history, then self.recorded_chat_history
    rr_return,                   \* the returned bool
    rr_pc                        \* "idle" | "fetched" | "replacing" | "returned"

substVars == <<rr_loaded, recorded_history_variables, current_variables,
               replaced_history, rr_return, rr_pc>>

VARIABLES
    \* ---- the replay_tasks table (RecordReplayManager.save_recording) ----
    replay_tasks,         \* the rows of the table, in task_id order
    saved,                \* the arguments of the save_recording calls that inserted, in order
    save_raised,          \* the latest save_recording call raised ValueError
    saves                 \* how many save_recording calls were made

storeVars == <<replay_tasks, saved, save_raised, saves>>

VARIABLES
    \* ---- BrowserManager (util/cdp_browser.py) and its callers ----
    bm_cdp_endpoint,      \* --cdp_endpoint of the run, handed to get_instance
    bm_in_container,      \* running_in_container()
    bm_instance,          \* cls._instance: 0 for None, else the manager's number
    bm_lock,              \* who holds cls._instance_lock, "free" when nobody
    managers,             \* the BrowserManager objects created so far, by number
    signal_target,        \* the manager whose handle_signal is installed, 0 for none
    task_pc,              \* per task: where it is suspended
    task_mgr,             \* per task: the manager it is working on, 0 for none
    bm_calls,             \* get_instance/stop_instance calls made so far
    bm_signals,           \* signals delivered so far
    early_returns         \* stop() calls that returned on `stopped` before the shutdown was over

bmVars == <<bm_cdp_endpoint, bm_in_container, bm_instance, bm_lock, managers,
            signal_target, task_pc, task_mgr, bm_calls, bm_signals, early_returns>>

VARIABLES
    \* ---- a call of a remote (MCP) tool (model/mcp/tool_registry.py) ----
    mcp_via,              \* how the agent got the registry's tools: "tools" | "mcp_tool_registry"
    mcp_schema,           \* the tool's input_schema
    mcp_arguments,        \* the arguments of the call as the model wrote them
    mcp_server,           \* what the server would answer: "data" | "error"
    mcp_server_calls,     \* calls that reached the server
    mcp_call_result,      \* the MCPCallResult of MCPToolRegistry.execute
    proxy_return,         \* what _mcp_proxy returned
    tool_result,          \* the ToolResult of _execute_single
    tool_message,         \* the content of the tool message appended to the chat history
    mcp_raised,           \* an exception left the call
    mcp_pc                \* "idle" | "called" | "executed" | "proxied" | "result" | "next_turn"

mcpVars == <<mcp_via, mcp_schema, mcp_arguments, mcp_server, mcp_server_calls,
             mcp_call_result, proxy_return, tool_result, tool_message, mcp_raised,
             mcp_pc>>

VARIABLES
    \* ---- NavigationAgent.wait_for_user_resume: hand-off to a human ----
    hil_polling_times,    \* config app.hil_polling_times
    polling_times,        \* the local counter of the polling loop
    polls,                \* page.evaluate("window.surfariMode") calls made
    sleeps,               \* asyncio.sleep(1) calls made
    surfariMode,          \* the page flag: "false" | "true" | "undefined"
    page_context,         \* "alive" | "destroyed" (navigated) | "closed"
    control_bar_removed,  \* remove_control_bar was called
    hil_answer,           \* what run() returned because of the wait, "" if nothing
    hil_pc                \* "idle" | "test" | "sleep" | "resumed" | "timeout" | "raised"

hilVars == <<hil_polling_times, polling_times, polls, sleeps, surfariMode, page_context,
             control_bar_removed, hil_answer, hil_pc>>

VARIABLES
    \* ---- NavigationAgent._handle_delegate_to_agent ----
    agent_delegation_site_list,  \* the configured sites
    deleg_steps,          \* the steps of the DELEGATE_TO_AGENT response
    deleg_done,           \* how many steps were handled
    deleg_messages,       \* the user messages appended to the chat history
    sub_agents,           \* the targets a NavigationAgent was constructed for
    pages_opened,         \* context.new_page() calls that returned
    pages_closed,         \* page.close() calls
    deleg_pc              \* "idle" | "steps" | "next_turn"

delegVars == <<agent_delegation_site_list, deleg_steps, deleg_done, deleg_messages,
               sub_agents, pages_opened, pages_closed, deleg_pc>>

VARIABLES
    \* ---- tool registration: _merge_tools and make_registry ----
    native_tools,         \* NavigationAgent's tools argument, in the given order
    mcp_funcs,            \* the proxy tools of the MCP registry, in its order
    reg_caller,           \* "agent" (run -> execute_tool_calls) | "direct"
    agent_tools,          \* self.tools after _merge_tools
    reg_call_name,        \* the name of the tool call
    dispatched_to,        \* the callable the call went to, "none" before, "unknown" without one
    reg_pc                \* "idle" | "merge" | "execute" | "done"

regVars == <<native_tools, mcp_funcs, reg_caller, agent_tools, reg_call_name,
             dispatched_to, reg_pc>>

VARIABLES
    \* ---- MCP capabilities: session cache and MCPToolRegistry.refresh ----
    server_tools,         \* the tools the server has now
    session_tools,        \* the session's cache, self._tools
    by_fn,                \* the tools in MCPToolRegistry._by_fn
    rpc_calls,            \* list_tools requests the server has answered or failed
    last_refresh,         \* the refresh that completed last, and the server's tools then
    server_changes,       \* how often the server's tool set changed
    refreshes,            \* how many refreshes were made
    cap_pc                \* "idle" | "new" | "connected"

capVars == <<server_tools, session_tools, by_fn, rpc_calls, last_refresh, server_changes,
             refreshes, cap_pc>>

VARIABLES
    \* ---- batch mode: navigation_cli.run_batch_csv and _worker ----
    num_of_tabs,          \* --num_of_tabs
    semaphore,            \* the value of asyncio.Semaphore(num_of_tabs)
    workers,              \* per task: "waiting" | "running" | "done" | "raised"
    batch_pc              \* "idle" | "gather" | "returned" | "raised"

batchVars == <<num_of_tabs, semaphore, workers, batch_pc>>

VARIABLES
    \* ---- page text: WebPageTextExtractor.get_full_text ----
    segments,                 \* what the page script returned: [enclose, content]
    full_text,                \* the lines' contents out of extract_text_from_frame
    distilled_text,           \* the lines' contents out of process_duplicate_content
    duplicate_text_mapping,   \* self.duplicate_text_mapping's keys
    dup_pc                    \* "idle" | "segments" | "extracted" | "processed"

dupVars == <<segments, full_text, distilled_text, duplicate_text_mapping, dup_pc>>

VARIABLES
    \* ---- replay: the retry of the first locator and the turn after it ----
    retry_using,          \* self.using_recording
    retry_history,        \* record_and_replay_manager.recorded_chat_history
    last_turn,            \* turns = max_turns in the turn of the retry
    attempt,              \* `attempt` of the retry loop, 0 before it
    retry_sleeps,         \* asyncio.sleep(1) calls of the retry
    locator,              \* "none" | "found"
    retries_failed,       \* the loop ended without a locator (line 588)
    recorded_value,       \* what the look at the recording returned
    next_source,          \* where the next turn's decision came from
    retry_pc

retryVars == <<retry_using, retry_history, last_turn, attempt, retry_sleeps, locator,
               retries_failed, recorded_value, next_source, retry_pc>>

VARIABLES
    \* ---- a turn with steps: locator resolution and take_actions ----
    act_steps,                \* the steps of the turn, as the page will treat them
    step_idx,                 \* `step_idx` of the resolution loop of run
    locators,                 \* per step: step["locator"] is set
    expandable_marks,         \* per step: step["is_expandable_element"] is set
    act_i,                    \* the position of take_actions in locator_actions
    skip_subsequent_actions,
    act_results,              \* per step: "none" or the kind of step["result"]
    acted,                    \* the steps that acted on the page, in order
    act_messages,             \* the user messages the turn appended
    act_total_errors,
    observations,             \* generate_text_representation calls after the turn
    act_pc

actVars == <<act_steps, step_idx, locators, expandable_marks, act_i,
             skip_subsequent_actions, act_results, acted, act_messages,
             act_total_errors, observations, act_pc>>

VARIABLES
    \* ---- wait_for_network_quiet ----
    max_inflight,             \* the keyword argument of the call
    inflight,                 \* `inflight` of the closure
    quiet_timer,              \* ticks left on the call_later handle, -1 for None
    quiet_event,              \* quiet_event.is_set()
    noise_open,               \* requests in flight that is_noise filters out
    net_elapsed,              \* ticks since `start`
    quiet_for,                \* ticks for which inflight has stayed <= max_inflight
    had_quiet_period,         \* quiet_for reached quiet_ticks before the timeout
    net_pc                    \* "called", "waiting", "quiet", "timeout", "idle"

netVars == <<max_inflight, inflight, quiet_timer, quiet_event, noise_open,
             net_elapsed, quiet_for, had_quiet_period, net_pc>>

VARIABLES
    \* ---- tab tracking of the navigation agent ----
    tabs,                     \* self.tabs, the ordered tab list
    current_working_tab,      \* self.current_working_tab, NoPage for None
    page,                     \* `page` of the turn loop of run
    open_pages,               \* the pages of the browser that are not closed
    next_page,                \* the next page the browser will open
    tab_turns,                \* `turns` of the loop
    tab_messages,             \* the user messages the tab handling appended
    last_close,               \* what the last CLOSE_CURRENT_TAB found and left
    tab_pc                    \* "turn_start", "in_turn", "failed", "done", "idle"

tabVars == <<tabs, current_working_tab, page, open_pages, next_page, tab_turns,
             tab_messages, last_close, tab_pc>>

VARIABLES
    \* ---- agents delegating to agents ----
    agent_stack,              \* the NavigationAgents whose run is on the call stack
    spawned                   \* the NavigationAgents _handle_delegate_to_agent built

nestVars == <<agent_stack, spawned>>

vars == <<toolVars, fsVars, otpVars, resVars, maskVars, runVars, substVars, storeVars, bmVars, mcpVars, hilVars, delegVars, regVars, capVars, batchVars, dupVars, retryVars, actVars, netVars, tabVars, nestVars>>

\* What each subsystem leaves alone.
notToolVars == <<fsVars, otpVars, resVars, maskVars, runVars, substVars, storeVars, bmVars, mcpVars, hilVars, delegVars, regVars, capVars, batchVars, dupVars, retryVars, actVars, netVars, tabVars, nestVars>>
notFsVars == <<toolVars, otpVars, resVars, maskVars, runVars, substVars, storeVars, bmVars, mcpVars, hilVars, delegVars, regVars, capVars, batchVars, dupVars, retryVars, actVars, netVars, tabVars, nestVars>>
notOtpVars == <<toolVars, fsVars, resVars, maskVars, runVars, substVars, storeVars, bmVars, mcpVars, hilVars, delegVars, regVars, capVars, batchVars, dupVars, retryVars, actVars, netVars, tabVars, nestVars>>
notResVars == <<toolVars, fsVars, otpVars, maskVars, runVars, substVars, storeVars, bmVars, mcpVars, hilVars, delegVars, regVars, capVars, batchVars, dupVars, retryVars, actVars, netVars, tabVars, nestVars>>
notMaskVars == <<toolVars, fsVars, otpVars, resVars, runVars, substVars, storeVars, bmVars, mcpVars, hilVars, delegVars, regVars, capVars, batchVars, dupVars, retryVars, actVars, netVars, tabVars, nestVars>>
notRunVars == <<toolVars, fsVars, otpVars, resVars, maskVars, substVars, storeVars, bmVars, mcpVars, hilVars, delegVars, regVars, capVars, batchVars, dupVars, retryVars, actVars, netVars, tabVars, nestVars>>
notSubstVars == <<toolVars, fsVars, otpVars, resVars, maskVars, runVars, storeVars, bmVars, mcpVars, hilVars, delegVars, regVars, capVars, batchVars, dupVars, retryVars, actVars, netVars, tabVars, nestVars>>
notStoreVars == <<toolVars, fsVars, otpVars, resVars, maskVars, runVars, substVars, bmVars, mcpVars, hilVars, delegVars, regVars, capVars, batchVars, dupVars, retryVars, actVars, netVars, tabVars, nestVars>>
notBmVars == <<toolVars, fsVars, otpVars, resVars, maskVars, runVars, substVars, storeVars, mcpVars, hilVars, delegVars, regVars, capVars, batchVars, dupVars, retryVars, actVars, netVars, tabVars, nestVars>>
notMcpVars == <<toolVars, fsVars, otpVars, resVars, maskVars, runVars, substVars, storeVars, bmVars, hilVars, delegVars, regVars, capVars, batchVars, dupVars, retryVars, actVars, netVars, tabVars, nestVars>>
notHilVars == <<toolVars, fsVars, otpVars, resVars, maskVars, runVars, substVars, storeVars, bmVars, mcpVars, delegVars, regVars, capVars, batchVars, dupVars, retryVars, actVars, netVars, tabVars, nestVars>>
notDelegVars == <<toolVars, fsVars, otpVars, resVars, maskVars, runVars, substVars, storeVars, bmVars, mcpVars, hilVars, regVars, capVars, batchVars, dupVars, retryVars, actVars, netVars, tabVars, nestVars>>
notRegVars == <<toolVars, fsVars, otpVars, resVars, maskVars, runVars, substVars, storeVars, bmVars, mcpVars, hilVars, delegVars, capVars, batchVars, dupVars, retryVars, actVars, netVars, tabVars, nestVars>>
notCapVars == <<toolVars, fsVars, otpVars, resVars, maskVars, runVars, substVars, storeVars, bmVars, mcpVars, hilVars, delegVars, regVars, batchVars, dupVars, retryVars, actVars, netVars, tabVars, nestVars>>
notBatchVars == <<toolVars, fsVars, otpVars, resVars, maskVars, runVars, substVars, storeVars, bmVars, mcpVars, hilVars, delegVars, regVars, capVars, dupVars, retryVars, actVars, netVars, tabVars, nestVars>>
notDupVars == <<toolVars, fsVars, otpVars, resVars, maskVars, runVars, substVars, storeVars, bmVars, mcpVars, hilVars, delegVars, regVars, capVars, batchVars, retryVars, actVars, netVars, tabVars, nestVars>>
notRetryVars == <<toolVars, fsVars, otpVars, resVars, maskVars, runVars, substVars, storeVars, bmVars, mcpVars, hilVars, delegVars, regVars, capVars, batchVars, dupVars, actVars, netVars, tabVars, nestVars>>
notActVars == <<toolVars, fsVars, otpVars, resVars, maskVars, runVars, substVars, storeVars, bmVars, mcpVars, hilVars, delegVars, regVars, capVars, batchVars, dupVars, retryVars, netVars, tabVars, nestVars>>
notNetVars == <<toolVars, fsVars, otpVars, resVars, maskVars, runVars, substVars, storeVars, bmVars, mcpVars, hilVars, delegVars, regVars, capVars, batchVars, dupVars, retryVars, actVars, tabVars, nestVars>>
notTabVars == <<toolVars, fsVars, otpVars, resVars, maskVars, runVars, substVars, storeVars, bmVars, mcpVars, hilVars, delegVars, regVars, capVars, batchVars, dupVars, retryVars, actVars, netVars, nestVars>>
notNestVars == <<toolVars, fsVars, otpVars, resVars, maskVars, runVars, substVars, storeVars, bmVars, mcpVars, hilVars, delegVars, regVars, capVars, batchVars, dupVars, retryVars, actVars, netVars, tabVars>>

(***************************************************************************)
(* Tool executor.                                                          *)
(***************************************************************************)
\* Tool names: a registered tool, a name no tool has, and a missing name
\* (c.get("name") is None or "").
RegisteredTools == {"add"}
CallNames == {"add", "nope", ""}
\* A call id; "" stands for a call without one (c.get("id") is None).
CallIds == {"c1", "c2", ""}
ToolCalls == [id : CallIds, name : CallNames]

\* make_registry: name -> callable; only membership matters here.
make_registry == RegisteredTools

\* _extract_calls: yields a ToolCall for every entry that has a name.
extract_calls(calls) == SelectSeq(calls, LAMBDA c : c.name # "")

\* The slot of a call that has not returned yet.
Pending == [id |-> "", name |-> "", ok |-> FALSE, error |-> "pending"]

\* config.CONFIG["app"].get("tool_call_timeout", 300)
tool_call_timeout == 300

\* The timeout argument: none, or the configured one.
Timeouts == {0, tool_call_timeout}

\* What a tool does when called: it returns in time, it takes longer than the
\* per-call timeout allows, it raises an Exception, or the task is cancelled
\* under it (CancelledError, which is no Exception).
Behaviours == {"returns", "slow", "raises", "interrupted"}

\* A call of a tool no function is registered for never runs.
behaviours_of(call) == IF call.name \in make_registry THEN Behaviours ELSE {"not run"}

\* What `await asyncio.wait_for(_run(), timeout)` or `await _run()` raises.
raised_by(behaviour, t) ==
    CASE behaviour = "slow" /\ t > 0 -> "TimeoutError"
      [] behaviour = "raises" -> "Exception"
      [] behaviour = "interrupted" -> "CancelledError"
      [] OTHER -> "none"

\* `except asyncio.TimeoutError` and `except Exception` missing the first.
caught_without_timeout(exc) == exc = "Exception"

\* `except asyncio.TimeoutError` and `except Exception`
caught(exc) == exc \in {"TimeoutError", "Exception"}

\* f"Timeout after {timeout}s"
timeout_message(t) == IF t = tool_call_timeout THEN "Timeout after 300s"
                      ELSE "Timeout after ?s"

\* _execute_single: the ToolResult, or the exception that leaves it.
execute_single(call, behaviour, t) ==
    LET exc == raised_by(behaviour, t)
        failed(msg) == [id |-> call.id, name |-> call.name, ok |-> FALSE, error |-> msg]
    IN  IF call.name \notin make_registry
        THEN [raises |-> FALSE, result |-> failed("Unknown tool")]
        ELSE IF exc = "none"
        THEN [raises |-> FALSE,
              result |-> [id |-> call.id, name |-> call.name, ok |-> TRUE, error |-> ""]]
        ELSE IF caught(exc)
        THEN [raises |-> FALSE,
              result |-> failed(IF exc = "TimeoutError" THEN timeout_message(t)
                                ELSE "Exception")]
        ELSE [raises |-> TRUE, result |-> Pending]

\* The results _execute_single can produce for a call under the configured timeout.
ExecOutcomes(call) ==
    {execute_single(call, b, tool_call_timeout).result :
        b \in behaviours_of(call) \ {"interrupted"}}

\* `if parallel and len(raw_calls) > 1` taken for any batch of several calls.
fan_out_any_batch(p, n) == p \/ n > 1

\* `if parallel and len(raw_calls) > 1`
fan_out(p, n) == p /\ n > 1

ToolsIdle ==
    /\ tool_calls_payload = <<>>
    /\ parallel = FALSE
    /\ raw_calls = <<>>
    /\ results = <<>>
    /\ completion_order = <<>>
    /\ tool_results = <<>>
    /\ exec_pc = "idle"
    /\ timeout = 0
    /\ behaviours = <<>>
    /\ started = {}

ToolsStart ==
    /\ tool_calls_payload \in SeqsUpTo(ToolCalls, MaxCalls)
    /\ parallel \in BOOLEAN
    /\ raw_calls = <<>>
    /\ results = <<>>
    /\ completion_order = <<>>
    /\ tool_results = <<>>
    /\ exec_pc = "start"
    /\ timeout \in Timeouts
    /\ behaviours = <<>>
    /\ started = {}

\* execute_tool_calls, up to the point where the calls are scheduled.
ExecuteStart ==
    /\ exec_pc = "start"
    /\ raw_calls' = extract_calls(tool_calls_payload)
    /\ results' = [i \in 1..Len(raw_calls') |-> Pending]
    /\ behaviours' = [i \in 1..Len(raw_calls') |-> "pending"]
    /\ started' = IF fan_out(parallel, Len(raw_calls')) THEN 1..Len(raw_calls') ELSE {}
    /\ exec_pc' = "running"
    /\ UNCHANGED <<tool_calls_payload, parallel, completion_order, tool_results, timeout>>
    /\ UNCHANGED notToolVars

\* parallel branch: asyncio.gather runs every call; any pending one may finish next.
CompleteParallel ==
    /\ exec_pc = "running"
    /\ fan_out(parallel, Len(raw_calls))
    /\ \E i \in started :
         /\ results[i] = Pending
         /\ \E b \in behaviours_of(raw_calls[i]) :
              LET r == execute_single(raw_calls[i], b, timeout)
              IN  /\ ~r.raises
                  /\ results' = [results EXCEPT ![i] = r.result]
                  /\ behaviours' = [behaviours EXCEPT ![i] = b]
         /\ completion_order' = Append(completion_order, i)
    /\ UNCHANGED <<tool_calls_payload, parallel, raw_calls, tool_results, exec_pc, timeout,
                   started>>
    /\ UNCHANGED notToolVars

\* serial branch: the loop reaches `await _execute_single(call, ...)` for the
\* next call.
StartSerial ==
    /\ exec_pc = "running"
    /\ ~fan_out(parallel, Len(raw_calls))
    /\ Len(completion_order) < Len(raw_calls)
    /\ Len(completion_order) + 1 \notin started
    /\ started' = started \cup {Len(completion_order) + 1}
    /\ UNCHANGED <<tool_calls_payload, parallel, raw_calls, results, completion_order,
                   tool_results, exec_pc, timeout, behaviours>>
    /\ UNCHANGED notToolVars

\* serial branch: the calls are awaited one by one, in order.
CompleteSerial ==
    /\ exec_pc = "running"
    /\ ~fan_out(parallel, Len(raw_calls))
    /\ Len(completion_order) < Len(raw_calls)
    /\ LET i == Len(completion_order) + 1 IN
         /\ i \in started
         /\ \E b \in behaviours_of(raw_calls[i]) :
              LET r == execute_single(raw_calls[i], b, timeout)
              IN  /\ ~r.raises
                  /\ results' = [results EXCEPT ![i] = r.result]
                  /\ behaviours' = [behaviours EXCEPT ![i] = b]
         /\ completion_order' = Append(completion_order, i)
    /\ UNCHANGED <<tool_calls_payload, parallel, raw_calls, tool_results, exec_pc, timeout,
                   started>>
    /\ UNCHANGED notToolVars

\* payload = {"tool_results": [r.json_safe() for r in results]}
ExecuteReturn ==
    /\ exec_pc = "running"
    /\ \A i \in 1..Len(raw_calls) : results[i] # Pending
    /\ tool_results' = results
    /\ exec_pc' = "returned"
    /\ UNCHANGED <<tool_calls_payload, parallel, raw_calls, results, completion_order,
                   timeout, behaviours, started>>
    /\ UNCHANGED notToolVars

\* The calls that may be the next to end: any pending one under gather, the
\* next in order in the serial loop.
may_end_next ==
    IF fan_out(parallel, Len(raw_calls))
    THEN {i \in started : results[i] = Pending}
    ELSE {i \in started : i = Len(completion_order) + 1}

\* An exception leaves _execute_single: the serial loop is left, or gather
\* re-raises it (return_exceptions=False); execute_tool_calls raises.
ExecuteRaises ==
    /\ exec_pc = "running"
    /\ \E i \in may_end_next :
         \E b \in behaviours_of(raw_calls[i]) :
              /\ execute_single(raw_calls[i], b, timeout).raises
              /\ behaviours' = [behaviours EXCEPT ![i] = b]
    /\ exec_pc' = "raised"
    /\ UNCHANGED <<tool_calls_payload, parallel, raw_calls, results, completion_order,
                   tool_results, timeout, started>>
    /\ UNCHANGED notToolVars

ToolsNext ==
    \/ ExecuteStart
    \/ StartSerial
    \/ CompleteParallel
    \/ CompleteSerial
    \/ ExecuteReturn
    \/ ExecuteRaises


(***************************************************************************)
(* Embedded filesystem tool: _normalize_subpath and _resolve_safe.         *)
(* A string is a sequence of one-character strings; a Path is the sequence *)
(* of its components below "/".                                            *)
(***************************************************************************)
PathChars == {"/", "\\", ".", "a", " "}

\* The server root, Path(root).expanduser().resolve(): "/r".
base == << <<"r">> >>

RECURSIVE lstrip(_)
lstrip(s) == IF s # <<>> /\ Head(s) = " " THEN lstrip(Tail(s)) ELSE s

RECURSIVE rstrip(_)
rstrip(s) ==
    IF s # <<>> /\ s[Len(s)] = " " THEN rstrip(SubSeq(s, 1, Len(s) - 1)) ELSE s

\* str.strip()
strip(s) == rstrip(lstrip(s))

\* s.replace("\\", "/")
replace_backslash(s) == [i \in 1..Len(s) |-> IF s[i] = "\\" THEN "/" ELSE s[i]]

\* while s.startswith("/"): s = s[1:]
RECURSIVE strip_leading_slashes(_)
strip_leading_slashes(s) ==
    IF s # <<>> /\ Head(s) = "/" THEN strip_leading_slashes(Tail(s)) ELSE s

\* s.split("/"): the segments between the slashes, empty ones included.
RECURSIVE split_from(_, _)
split_from(s, cur) ==
    IF s = <<>> THEN <<cur>>
    ELSE IF Head(s) = "/" THEN <<cur>> \o split_from(Tail(s), <<>>)
    ELSE split_from(Tail(s), Append(cur, Head(s)))

split(s) == split_from(s, <<>>)

\* "/".join(parts)
RECURSIVE join(_)
join(parts) ==
    IF parts = <<>> THEN <<>>
    ELSE IF Len(parts) = 1 THEN parts[1]
    ELSE parts[1] \o <<"/">> \o join(Tail(parts))

DotDot == <<".", ".">>

\* The loop over s.split("/") with a ".." above the root kept instead of clamped.
RECURSIVE collapse_no_clamp(_, _)
collapse_no_clamp(segs, parts) ==
    IF segs = <<>> THEN IF parts = <<>> THEN <<".">> ELSE join(parts)
    ELSE LET seg == Head(segs) IN
         IF seg \in {<<>>, <<".">>} THEN collapse_no_clamp(Tail(segs), parts)
         ELSE IF seg = DotDot /\ parts # <<>> /\ parts[Len(parts)] # DotDot
              THEN collapse_no_clamp(Tail(segs), SubSeq(parts, 1, Len(parts) - 1))
         ELSE collapse_no_clamp(Tail(segs), Append(parts, seg))

\* The loop of _normalize_subpath over s.split("/") and its final return.
RECURSIVE collapse(_, _)
collapse(segs, parts) ==
    IF segs = <<>> THEN IF parts = <<>> THEN <<".">> ELSE join(parts)
    ELSE LET seg == Head(segs) IN
         IF seg \in {<<>>, <<".">>} THEN collapse(Tail(segs), parts)
         ELSE IF seg = DotDot
              THEN IF parts # <<>>
                   THEN collapse(Tail(segs), SubSeq(parts, 1, Len(parts) - 1))
                   ELSE <<".">>
         ELSE collapse(Tail(segs), Append(parts, seg))

\* _normalize_subpath(p)
normalize_subpath(p) ==
    IF p = None \/ p = <<>> THEN <<".">>
    ELSE LET s == strip(p) IN
         IF s \in {<<".">>, <<".", "/">>, <<"/">>} THEN <<".">>
         ELSE collapse(split(strip_leading_slashes(replace_backslash(s))), <<>>)

\* The file system: <root>/a may be a symbolic link to "/" (outside the root).
LinkPath == base \o << <<"a">> >>
LinkTarget == <<>>

\* Path.resolve() of the components `segs` walked from the directory `cur`:
\* "." and "" are dropped by the Path constructor, ".." goes to the parent
\* ("/" is its own parent), a symbolic link is followed.
RECURSIVE resolve(_, _, _)
resolve(cur, segs, linked) ==
    IF segs = <<>> THEN cur
    ELSE LET seg == Head(segs) IN
         IF seg \in {<<>>, <<".">>} THEN resolve(cur, Tail(segs), linked)
         ELSE IF seg = DotDot
              THEN resolve(IF cur = <<>> THEN cur ELSE SubSeq(cur, 1, Len(cur) - 1),
                           Tail(segs), linked)
         ELSE LET nxt == Append(cur, seg) IN
              resolve(IF linked /\ nxt = LinkPath THEN LinkTarget ELSE nxt,
                      Tail(segs), linked)

\* base / sub: an absolute right operand replaces the left one.
join_base(sub) == IF sub # <<>> /\ Head(sub) = "/" THEN <<>> ELSE base

\* _inside(root, target): target.relative_to(root) succeeds.
inside(root, target) ==
    /\ Len(target) >= Len(root)
    /\ SubSeq(target, 1, Len(root)) = root

FsIdle ==
    /\ fs_path = None
    /\ fs_symlink = FALSE
    /\ fs_sub = None
    /\ fs_target = None
    /\ fs_pc = "idle"

FsStart ==
    /\ fs_path \in SeqsUpTo(PathChars, MaxPathLen) \cup {None}
    /\ fs_symlink \in BOOLEAN
    /\ fs_sub = None
    /\ fs_target = None
    /\ fs_pc = "call"

\* _resolve_safe: sub = _normalize_subpath(p)
FsNormalize ==
    /\ fs_pc = "call"
    /\ fs_sub' = normalize_subpath(fs_path)
    /\ fs_pc' = "normalized"
    /\ UNCHANGED <<fs_path, fs_symlink, fs_target>>
    /\ UNCHANGED notFsVars

\* _resolve_safe: tgt = (base / sub).resolve(), returned when inside the root.
FsResolveReturn ==
    /\ fs_pc = "normalized"
    /\ LET tgt == resolve(join_base(fs_sub), split(fs_sub), fs_symlink) IN
         /\ inside(base, tgt)
         /\ fs_target' = tgt
    /\ fs_pc' = "done"
    /\ UNCHANGED <<fs_path, fs_symlink, fs_sub>>
    /\ UNCHANGED notFsVars

\* _resolve_safe: raise ValueError("Path escapes allowed root")
FsResolveRaise ==
    /\ fs_pc = "normalized"
    /\ LET tgt == resolve(join_base(fs_sub), split(fs_sub), fs_symlink) IN
         ~inside(base, tgt)
    /\ fs_pc' = "raised"
    /\ UNCHANGED <<fs_path, fs_symlink, fs_sub, fs_target>>
    /\ UNCHANGED notFsVars

FsNext ==
    \/ FsNormalize
    \/ FsResolveReturn
    \/ FsResolveRaise


(***************************************************************************)
(* OTP step rewriting: NavigationAgent._check_steps_for_otp_and_solve and  *)
(* the lines of run that adopt its result.                                 *)
(***************************************************************************)
OtpActions == {"fill", "click"}
OtpTargets == {"{_1}", "{_2}", "{_3}", "{Code}"}
Star == <<"*">>
OtpWord == <<"O", "T", "P">>
OtpValues == {Star, OtpWord}
OtpStepChoices == [action : OtpActions, target : OtpTargets, value : OtpValues]

\* The characters of the codes the fetcher may return: a code is a prefix of these.
OtpDigits == <<"4", "8", "2", "9", "1", "3">>

\* re.fullmatch(r"\{\_(\d+)\}", target): the index, 0 when there is no match.
digit_index(target) ==
    CASE target = "{_1}" -> 1
      [] target = "{_2}" -> 2
      [] target = "{_3}" -> 3
      [] OTHER -> 0

matches_digit_box(target) == target \in {"{_1}", "{_2}", "{_3}"}

\* Step 1: the indices i of the fill steps whose value is "OTP".
otp_fill_indices(steps) ==
    {i \in 1..Len(steps) : steps[i].action = "fill" /\ steps[i].value = OtpWord}

\* Step 1: the (digit_index, i) pairs of the digit-per-box steps.
digit_steps(steps) ==
    {<<digit_index(steps[i].target), i>> : i \in
        {j \in 1..Len(steps) : /\ steps[j].action = "fill"
                               /\ steps[j].value # OtpWord
                               /\ matches_digit_box(steps[j].target)
                               /\ steps[j].value = Star}}

\* digit_steps.sort(): by digit index, then by position.
RECURSIVE sort_pairs(_)
sort_pairs(S) ==
    IF S = {} THEN <<>>
    ELSE LET m == CHOOSE p \in S :
                    \A q \in S : p[1] < q[1] \/ (p[1] = q[1] /\ p[2] <= q[2])
         IN <<m>> \o sort_pairs(S \ {m})

\* The two checks of step 4 with the length check left out.
per_digit_valid_no_length_check(sorted, code) ==
    [j \in 1..Len(sorted) |-> sorted[j][1]] = [j \in 1..Len(sorted) |-> j]

\* Step 4: actual == expected and len(otp_code) == len(digit_steps).
per_digit_valid(sorted, code) ==
    /\ [j \in 1..Len(sorted) |-> sorted[j][1]] = [j \in 1..Len(sorted) |-> j]
    /\ Len(code) = Len(sorted)

\* Whether step 4 substitutes the digits.
per_digit_applies(steps, code) ==
    LET sorted == sort_pairs(digit_steps(steps)) IN
    sorted # <<>> /\ per_digit_valid(sorted, code)

\* Steps 3 and 4: the updated copy of the steps.
updated_steps(steps, code) ==
    LET sorted == sort_pairs(digit_steps(steps))
        \* zip(digit_steps, otp_code): the j-th pair gets the j-th character
        zipped == {j \in 1..Len(sorted) : j <= Len(code)}
    IN [i \in 1..Len(steps) |->
          IF i \in otp_fill_indices(steps) THEN [steps[i] EXCEPT !.value = code]
          ELSE IF /\ per_digit_applies(steps, code)
                  /\ \E j \in zipped : sorted[j][2] = i
                  /\ steps[i].value = Star
               THEN LET j == CHOOSE j \in zipped : sorted[j][2] = i
                    IN [steps[i] EXCEPT !.value = <<code[j]>>]
          ELSE steps[i]]

\* The count returned beside the updated steps: one per replaced value.
replacements(steps, code) ==
    LET sorted == sort_pairs(digit_steps(steps)) IN
    Cardinality(otp_fill_indices(steps))
    + (IF per_digit_applies(steps, code)
       THEN Cardinality({j \in 1..Len(sorted) : j <= Len(code)})
       ELSE 0)

OtpCodes == {SubSeq(OtpDigits, 1, k) : k \in 0..MaxOtpLen}

OtpIdle ==
    /\ otp_steps = <<>>
    /\ otp_code = <<>>
    /\ otp_replacements = 0
    /\ otp_updated_steps = <<>>
    /\ otp_steps_after = <<>>
    /\ otp_pc = "idle"

OtpStart ==
    /\ otp_steps \in SeqsUpTo(OtpStepChoices, MaxSteps)
    /\ otp_code \in OtpCodes
    /\ otp_replacements = 0
    /\ otp_updated_steps = <<>>
    /\ otp_steps_after = <<>>
    /\ otp_pc = "call"

\* No OTP pattern among the steps: return 0, steps.
OtpNoPattern ==
    /\ otp_pc = "call"
    /\ otp_fill_indices(otp_steps) = {} /\ digit_steps(otp_steps) = {}
    /\ otp_replacements' = 0
    /\ otp_updated_steps' = otp_steps
    /\ otp_steps_after' = otp_steps
    /\ otp_pc' = "returned"
    /\ UNCHANGED <<otp_steps, otp_code>>
    /\ UNCHANGED notOtpVars

\* No code fetched: return 0, "failure getting otp code" (the string is not
\* a step list; the caller ignores it, <<>> stands for it).
OtpFetchFailed ==
    /\ otp_pc = "call"
    /\ ~(otp_fill_indices(otp_steps) = {} /\ digit_steps(otp_steps) = {})
    /\ otp_code = <<>>
    /\ otp_replacements' = 0
    /\ otp_updated_steps' = <<>>
    /\ otp_steps_after' = otp_steps
    /\ otp_pc' = "returned"
    /\ UNCHANGED <<otp_steps, otp_code>>
    /\ UNCHANGED notOtpVars

\* Steps 3 and 4, and run: `if result > 0: steps = updated_steps`.
OtpApply ==
    /\ otp_pc = "call"
    /\ ~(otp_fill_indices(otp_steps) = {} /\ digit_steps(otp_steps) = {})
    /\ otp_code # <<>>
    /\ otp_replacements' = replacements(otp_steps, otp_code)
    /\ otp_updated_steps' = updated_steps(otp_steps, otp_code)
    /\ otp_steps_after' = IF otp_replacements' > 0 THEN otp_updated_steps' ELSE otp_steps
    /\ otp_pc' = "returned"
    /\ UNCHANGED <<otp_steps, otp_code>>
    /\ UNCHANGED notOtpVars

OtpNext ==
    \/ OtpNoPattern
    \/ OtpFetchFailed
    \/ OtpApply


(***************************************************************************)
(* Value resolver chain: resolve_missing_value_in_llm_response.            *)
(* A missing dict key is Absent.                                           *)
(***************************************************************************)
Absent == "<absent>"

\* What a step's "resolve_value" may be: blank, a credential placeholder, the
\* OTP sentinel, a redacted confirmation, a question for the configured resolver.
ResolveValues == {Absent, " ", "UsernameAssistant", "PasswordAssistant", "OTP",
                  "**1234", "city"}
StepValues == {Absent, "v"}
ResolveSteps == [value : StepValues, resolve_value : ResolveValues, orig_value : {Absent}]

\* An LLMResponse: steps is the list extract_steps yields; has_steps is FALSE
\* when neither "step" nor "steps" is present.
Responses ==
    {[step_execution |-> e, has_steps |-> TRUE, steps |-> s] :
        e \in {"SINGLE", "SEQUENCE"}, s \in SeqsUpTo(ResolveSteps, MaxResolveSteps)}
    \cup {[step_execution |-> "SEQUENCE", has_steps |-> FALSE, steps |-> <<>>]}

\* `not extract_steps(resp)`
no_steps(resp) == ~resp.has_steps \/ resp.steps = <<>>

\* str.strip() on the strings above.
strip_value(v) == IF v = " " THEN "" ELSE v

\* `"**" in rv`
has_double_star(v) == v = "**1234"

\* Host names, as their labels.
Hosts == {<<"login", "sbc", "com">>, <<"www", "SBC", "com">>, <<"sbc", "evil", "com">>,
          <<"sbc", "co", "uk">>, <<"localhost">>}
NoUrl == <<"no url">>

\* The public suffixes tldextract knows here.
PublicSuffixes == {<<"com">>, <<"co", "uk">>, <<"uk">>}

lower(label) == IF label = "SBC" THEN "sbc" ELSE label

\* tldextract.extract(url): the longest public suffix ending the host, and the
\* label before it; a host without a known suffix is all domain.
suffix_len(host) ==
    LET lens == {n \in 0..(Len(host)) :
                   n = 0 \/ SubSeq(host, Len(host) - n + 1, Len(host)) \in PublicSuffixes}
    IN CHOOSE n \in lens : \A m \in lens : m <= n

\* get_base_domain(url): f"{extracted.domain}.{extracted.suffix}".lower()
get_base_domain(host) ==
    LET n == suffix_len(host)
        dom == IF Len(host) > n THEN <<lower(host[Len(host) - n])>> ELSE <<"">>
    IN dom \o [i \in 1..n |-> lower(host[Len(host) - n + i])]

\* base_domains_match comparing the domain label only, not the suffix.
base_domains_match_domain_only(url1, url2) ==
    get_base_domain(url1)[1] = get_base_domain(url2)[1]

\* base_domains_match(url1, url2)
base_domains_match(url1, url2) == get_base_domain(url1) = get_base_domain(url2)

\* SiteCredentialManager.load_site_with_secrets: {} for an unknown site.
NoSecrets == [url |-> NoUrl, username |-> "", password |-> ""]
SiteSecrets == {NoSecrets,
                [url |-> <<"www", "SBC", "com">>, username |-> "alice", password |-> "s3cret"],
                [url |-> <<"www", "SBC", "com">>, username |-> "alice", password |-> ""],
                [url |-> <<"sbc", "co", "uk">>, username |-> "alice", password |-> "s3cret"]}

\* self.site_secrets.get(inp.text); None is "".
secret_for(secrets, prompt) ==
    CASE prompt = "UsernameAssistant" -> secrets.username
      [] prompt = "PasswordAssistant" -> secrets.password
      [] OTHER -> ""

\* SecretResolver.resolve: the value, "" for ResolveOutput(value=None).
secret_resolve(secrets, current_url, prompt) ==
    IF /\ current_url # NoUrl
       /\ secrets.url # NoUrl
       /\ base_domains_match(current_url, secrets.url)
    THEN secret_for(secrets, prompt)
    ELSE ""

\* The configured resolvers: none, EchoResolver, NoOpResolver.
Resolvers == {"None", "EchoResolver", "NoOpResolver"}

\* _call_resolver(resolver, prompt, context) for a configured resolver.
call_resolver(resolver, prompt) == IF resolver = "EchoResolver" THEN prompt ELSE ""

has_value(st) == st.value # Absent

\* `isinstance(rv, str) and rv.strip()`
has_prompt(st) == st.resolve_value # Absent /\ strip_value(st.resolve_value) # ""

\* _response_has_resolve_value that looks only at steps lacking a value.
response_has_resolve_value_unvalued(resp) ==
    /\ ~no_steps(resp)
    /\ \E i \in 1..Len(resp.steps) : has_prompt(resp.steps[i]) /\ ~has_value(resp.steps[i])

\* _response_has_resolve_value(resp)
response_has_resolve_value(resp) ==
    /\ ~no_steps(resp)
    /\ \E i \in 1..Len(resp.steps) : has_prompt(resp.steps[i])

\* Lines 110-114: OTP and "**" placeholders pass through as the value.
sentinel_step(st) ==
    IF st.resolve_value # Absent
       /\ (st.resolve_value = "OTP" \/ has_double_star(st.resolve_value))
    THEN [st EXCEPT !.orig_value = strip_value(st.resolve_value),
                    !.value = strip_value(st.resolve_value),
                    !.resolve_value = Absent]
    ELSE st

\* The prompts a resolver may be called with.
Prompts == {strip_value(v) : v \in ResolveValues \ {Absent}}

\* One step of _resolve_steps; resolved[prompt] is the resolver's answer.
resolve_step(st, resolved) ==
    IF has_value(st) THEN [st EXCEPT !.resolve_value = Absent]
    ELSE IF has_prompt(st) /\ resolved[strip_value(st.resolve_value)] # ""
         THEN [st EXCEPT !.orig_value = strip_value(st.resolve_value),
                         !.value = resolved[strip_value(st.resolve_value)],
                         !.resolve_value = Absent]
    ELSE st

\* _resolve_steps(steps, resolver, context)
resolve_steps(steps, resolved) ==
    [i \in 1..Len(steps) |-> resolve_step(steps[i], resolved)]

\* DefaultDelegationResolver.delegate_to_user
delegate_to_user(resp) ==
    [step_execution |-> "DELEGATE_TO_USER", has_steps |-> FALSE, steps |-> <<>>]

ResIdle ==
    /\ res_input = [step_execution |-> "SEQUENCE", has_steps |-> FALSE, steps |-> <<>>]
    /\ res_resp = res_input
    /\ res_out = res_input
    /\ res_current_url = NoUrl
    /\ res_site_secrets = NoSecrets
    /\ res_resolver = "None"
    /\ res_pc = "idle"

ResStart ==
    /\ res_input \in Responses
    /\ res_resp = res_input
    /\ res_out = res_input
    /\ res_current_url \in Hosts \cup {NoUrl}
    /\ res_site_secrets \in SiteSecrets
    /\ res_resolver \in Resolvers
    /\ res_pc = "call"

\* `if not steps_to_process: return resp`
ResNothingToDo ==
    /\ res_pc = "call"
    /\ no_steps(res_resp)
    /\ res_out' = res_resp
    /\ res_pc' = "returned"
    /\ UNCHANGED <<res_input, res_resp, res_current_url, res_site_secrets, res_resolver>>
    /\ UNCHANGED notResVars

\* The sentinel pass over resp, then `if not has_rv: return resp`.
ResSentinels ==
    /\ res_pc = "call"
    /\ ~no_steps(res_resp)
    /\ res_resp' = [res_resp EXCEPT
                      !.steps = [i \in 1..Len(res_resp.steps) |-> sentinel_step(res_resp.steps[i])]]
    /\ res_out' = res_resp'
    /\ res_pc' = IF response_has_resolve_value(res_resp') THEN "sentinels" ELSE "returned"
    /\ UNCHANGED <<res_input, res_current_url, res_site_secrets, res_resolver>>
    /\ UNCHANGED notResVars

\* out = deepcopy(resp); the SecretResolver pass; `if not has_rv: return out`.
ResSecrets ==
    /\ res_pc = "sentinels"
    /\ res_out' = [res_resp EXCEPT
                     !.steps = resolve_steps(res_resp.steps,
                                 [q \in Prompts |->
                                    secret_resolve(res_site_secrets, res_current_url, q)])]
    /\ res_pc' = IF response_has_resolve_value(res_out') THEN "secrets" ELSE "returned"
    /\ UNCHANGED <<res_input, res_resp, res_current_url, res_site_secrets, res_resolver>>
    /\ UNCHANGED notResVars

\* `if resolver: _resolve_steps(...)`; `if not has_rv: return out`.
ResConfigured ==
    /\ res_pc = "secrets"
    /\ res_out' = IF res_resolver = "None" THEN res_out
                  ELSE [res_out EXCEPT
                          !.steps = resolve_steps(res_out.steps,
                                      [q \in Prompts |-> call_resolver(res_resolver, q)])]
    /\ res_pc' = IF response_has_resolve_value(res_out') THEN "configured" ELSE "returned"
    /\ UNCHANGED <<res_input, res_resp, res_current_url, res_site_secrets, res_resolver>>
    /\ UNCHANGED notResVars

\* return DefaultDelegationResolver().delegate_to_user(out)
ResDelegate ==
    /\ res_pc = "configured"
    /\ res_out' = delegate_to_user(res_out)
    /\ res_pc' = "returned"
    /\ UNCHANGED <<res_input, res_resp, res_current_url, res_site_secrets, res_resolver>>
    /\ UNCHANGED notResVars

ResNext ==
    \/ ResNothingToDo
    \/ ResSentinels
    \/ ResSecrets
    \/ ResConfigured
    \/ ResDelegate


(***************************************************************************)
(* NumericMasker: mask_sensitive_info and unmask_sensitive_info.           *)
(* A token is a sequence of characters; a text is the sequence of its      *)
(* whitespace-separated tokens (TOKEN_PATTERN, \S+).                       *)
(***************************************************************************)
min_token_length == 5

\* The digits, cut down to three.
MaskDigits == {"0", "1", "2"}

\* The tokens a text is made of: two account ids, a bracketed target, a word,
\* a date and an amount.
MaskTokens == {<<"a", "c", "c", "1", "2">>,
               <<"a", "c", "c", "2", "1">>,
               <<"[", "a", "c", "c", "1", "2", "]">>,
               <<"L", "o", "g", "i", "n">>,
               <<"1", "/", "2", "/", "2", "1">>,
               <<"$", "1", ",", "2", "1", "2">>}

MaskTexts == SeqsUpTo(MaskTokens, MaxMaskTokens)

DEFAULT_DONOT_MASK_TERMS == {<<"1", "0", "9", "9">>, <<"2", "0", "2", "4">>,
                             <<"2", "0", "2", "5">>, <<"2", "0", "2", "6">>,
                             <<"4", "0", "1", "k">>}

\* The task goals add_donot_mask_terms_from_string is called with.
TaskGoals == {<<>>, << <<"a", "c", "c", "1", "2">> >>}

\* The donot_mask arguments: none, or one text that names the second account.
DonotMaskLists == {<<>>, << <<"i", "d", " ", "a", "c", "c", "2", "1">> >>}

\* _has_digit(token)
has_digit(token) == \E i \in 1..Len(token) : token[i] \in MaskDigits

remove_chars(s, chars) == SelectSeq(s, LAMBDA c : c \notin chars)

lower_chars(s) == [i \in 1..Len(s) |-> IF s[i] = "L" THEN "l" ELSE s[i]]

\* re.sub(r"[^\w]", "", token).lower()
donot_normalized(token) ==
    lower_chars(remove_chars(token, {"[", "]", "$", ",", "/", " ", ".", "-"}))

\* add_donot_mask_terms_from_string(in_string), in_string given as its tokens
add_donot_mask_terms(terms, goal) ==
    terms \cup {donot_normalized(goal[i]) : i \in
                  {j \in 1..Len(goal) : /\ has_digit(goal[j])
                                        /\ Len(strip(goal[j])) >= min_token_length
                                        /\ donot_normalized(goal[j]) # <<>>}}

\* _is_donot_mask_term(token)
is_donot_mask_term(terms, token) == donot_normalized(token) \in terms

\* TIME_PATTERN without the AM/PM suffix: \d{1,2}:\d{2}(:\d{2})?
matches_time(t) ==
    \E h \in 1..2 :
        /\ Len(t) \in {h + 3, h + 6}
        /\ \A i \in (1..h) \cup {h + 2, h + 3} : t[i] \in MaskDigits
        /\ t[h + 1] = ":"
        /\ Len(t) = h + 6 => /\ t[h + 4] = ":"
                             /\ t[h + 5] \in MaskDigits /\ t[h + 6] \in MaskDigits

\* _is_dateish(token); no token here carries a month name.
is_dateish(token) ==
    LET t == strip(token)
        t2 == IF t # <<>> /\ Head(t) = "-" THEN lstrip(Tail(t)) ELSE t
    IN \/ matches_time(t2)
       \/ /\ \E i \in 1..Len(t2) : t2[i] \in {"/", "-"}
          /\ has_digit(t2)

RECURSIVE rstrip_dot(_)
rstrip_dot(s) ==
    IF s # <<>> /\ s[Len(s)] = "." THEN rstrip_dot(SubSeq(s, 1, Len(s) - 1)) ELSE s

\* float(tmp) succeeds: digits with at most one point (no token here spells a
\* float any other way).
is_float(tmp) ==
    /\ \E i \in 1..Len(tmp) : tmp[i] \in MaskDigits
    /\ \A i \in 1..Len(tmp) : tmp[i] \in MaskDigits \cup {"."}
    /\ Cardinality({i \in 1..Len(tmp) : tmp[i] = "."}) <= 1

\* f"{int(val)}" of a digit string: the leading zeros go.
RECURSIVE format_int(_)
format_int(digits) ==
    IF Len(digits) > 1 /\ Head(digits) = "0" THEN format_int(Tail(digits)) ELSE digits

\* _normalize_number(num_str); a token with a decimal point keeps its digits.
normalize_number(num_str) ==
    LET has_dollar == \E i \in 1..Len(num_str) : num_str[i] = "$"
        cleaned == rstrip_dot(strip(remove_chars(num_str,
                      {"{", "}", "[", "]", "(", ")", ":", ";", ",", "$", "'"})))
        signed == cleaned # <<>> /\ Head(cleaned) \in {"+", "-"}
        prefix == IF signed THEN <<Head(cleaned)>> ELSE <<>>
        tmp == IF signed THEN lstrip(Tail(cleaned)) ELSE cleaned
        formatted == IF \E i \in 1..Len(tmp) : tmp[i] = "." THEN tmp ELSE format_int(tmp)
    IN IF ~is_float(tmp) THEN cleaned
       ELSE IF has_dollar THEN prefix \o <<"$">> \o formatted
       ELSE prefix \o formatted

\* `token in item` for some item of donot_mask
in_donot_mask(list, token) ==
    \E k \in 1..Len(list) : \E i \in 1..(Len(list[k]) - Len(token) + 1) :
        SubSeq(list[k], i, i + Len(token) - 1) = token

\* The replacer's tests: TRUE when the token goes to _mask_token.
is_masked(terms, list, token) ==
    /\ Len(normalize_number(token)) >= min_token_length
    /\ has_digit(token)
    /\ ~is_donot_mask_term(terms, token)
    /\ ~is_dateish(token)
    /\ ~in_donot_mask(list, token)

\* _mask_digit_char(c): what random.choice may return.
mask_digit_char(c) ==
    IF c \in MaskDigits
    THEN IF c = "0" THEN MaskDigits ELSE MaskDigits \ {"0"}
    ELSE {c}

\* The candidates "".join(self._mask_digit_char(c) for c in token) may be.
RECURSIVE mask_candidates(_)
mask_candidates(token) ==
    IF token = <<>> THEN {<<>>}
    ELSE {<<d>> \o rest : d \in mask_digit_char(Head(token)),
                          rest \in mask_candidates(Tail(token))}

\* f"MASK{random.randint(100000,999999)}", two of its values.
Fallbacks == {<<"M", "A", "S", "K", "1", "0", "0", "0", "0", "0">>,
              <<"M", "A", "S", "K", "2", "2", "2", "2", "2", "2">>}

in_replacement_map(map, token) == \E i \in 1..Len(map) : map[i].original = token

replacement_of(map, token) ==
    map[CHOOSE i \in 1..Len(map) : map[i].original = token].masked

\* _mask_token(token): the masked tokens it may return. A candidate is taken
\* unless it is in used_masked; the fallback needs a hundred collisions.
mask_token_outcomes(map, used, token) ==
    IF in_replacement_map(map, token) THEN {replacement_of(map, token)}
    ELSE (mask_candidates(token) \ used)
         \cup (IF mask_candidates(token) \cap used # {} THEN Fallbacks ELSE {})

\* The dict a loop of `d[key(e)] = val(e)` over map leaves: the last entry wins.
last_index(map, keys, k) ==
    CHOOSE i \in 1..Len(map) : keys[i] = k /\ \A j \in (i + 1)..Len(map) : keys[j] # k

\* _build_reverse_map: reverse_map
build_reverse_map(map) ==
    LET keys == [i \in 1..Len(map) |-> map[i].masked]
    IN [k \in Range(keys) |-> map[last_index(map, keys, k)].original]

\* _build_reverse_map: normalized_reverse_map
build_normalized_reverse_map(map) ==
    LET keys == [i \in 1..Len(map) |-> normalize_number(map[i].masked)]
    IN [k \in Range(keys) |-> normalize_number(map[last_index(map, keys, k)].original)]

\* revert_func(m)
revert_func(rmap, nmap, token) ==
    IF ~has_digit(token) \/ is_dateish(token) THEN token
    ELSE IF token \in DOMAIN rmap THEN rmap[token]
    ELSE IF normalize_number(token) \in DOMAIN nmap THEN nmap[normalize_number(token)]
    ELSE token

\* " ".join(tokens)
RECURSIVE text_of(_)
text_of(tokens) ==
    IF tokens = <<>> THEN <<>>
    ELSE IF Len(tokens) = 1 THEN tokens[1]
    ELSE tokens[1] \o <<" ">> \o text_of(Tail(tokens))

\* re.fullmatch(r"^(\[\[.*\]\]|\{\{.*\}\}|\[.*\]|\{.*\})\d*$", masked_text)
is_proper_target(text) ==
    \E k \in 2..Len(text) :
        /\ <<text[1], text[k]>> \in {<<"[", "]">>, <<"{", "}">>}
        /\ \A i \in (k + 1)..Len(text) : text[i] \in MaskDigits

\* re.sub(r"[{}\[\]\(\)]", "", unmasked_text)
remove_brackets(token) == remove_chars(token, {"{", "}", "[", "]", "(", ")"})

\* unmask_sensitive_info(masked_text), token by token
unmask(rmap, nmap, tokens) ==
    LET reverted == [i \in 1..Len(tokens) |-> revert_func(rmap, nmap, tokens[i])]
    IN IF tokens = <<>> THEN <<>>
       ELSE IF ~is_proper_target(text_of(tokens))
            THEN [i \in 1..Len(tokens) |-> remove_brackets(reverted[i])]
       ELSE reverted

MaskIdle ==
    /\ mask_text = <<>>
    /\ donot_mask_terms = DEFAULT_DONOT_MASK_TERMS
    /\ donot_mask = <<>>
    /\ replacement_map = <<>>
    /\ used_masked = {}
    /\ reverse_map = <<>>
    /\ normalized_reverse_map = <<>>
    /\ masked_tokens = <<>>
    /\ unmasked_tokens = <<>>
    /\ mask_pc = "idle"

\* A masker built with the defaults, told the task goal, given a text to mask.
MaskStart ==
    /\ mask_text \in MaskTexts
    /\ \E goal \in TaskGoals :
          donot_mask_terms = add_donot_mask_terms(DEFAULT_DONOT_MASK_TERMS, goal)
    /\ donot_mask \in DonotMaskLists
    /\ replacement_map = <<>>
    /\ used_masked = {}
    /\ reverse_map = <<>>
    /\ normalized_reverse_map = <<>>
    /\ masked_tokens = <<>>
    /\ unmasked_tokens = <<>>
    /\ mask_pc = "masking"

\* The token replacer is about to see.
NextToken == mask_text[Len(masked_tokens) + 1]

\* replacer(m) returning the token as it is.
MaskKeepToken ==
    /\ mask_pc = "masking"
    /\ Len(masked_tokens) < Len(mask_text)
    /\ ~is_masked(donot_mask_terms, donot_mask, NextToken)
    /\ masked_tokens' = Append(masked_tokens, NextToken)
    /\ UNCHANGED <<mask_text, donot_mask_terms, donot_mask, replacement_map, used_masked,
                   reverse_map, normalized_reverse_map, unmasked_tokens, mask_pc>>
    /\ UNCHANGED notMaskVars

\* replacer(m) -> _mask_token: a token masked before gets the same mask.
MaskReuseToken ==
    /\ mask_pc = "masking"
    /\ Len(masked_tokens) < Len(mask_text)
    /\ is_masked(donot_mask_terms, donot_mask, NextToken)
    /\ in_replacement_map(replacement_map, NextToken)
    /\ \E m \in mask_token_outcomes(replacement_map, used_masked, NextToken) :
          masked_tokens' = Append(masked_tokens, m)
    /\ UNCHANGED <<mask_text, donot_mask_terms, donot_mask, replacement_map, used_masked,
                   reverse_map, normalized_reverse_map, unmasked_tokens, mask_pc>>
    /\ UNCHANGED notMaskVars

\* replacer(m) -> _mask_token: a new candidate, or the fallback.
MaskNewToken ==
    /\ mask_pc = "masking"
    /\ Len(masked_tokens) < Len(mask_text)
    /\ is_masked(donot_mask_terms, donot_mask, NextToken)
    /\ ~in_replacement_map(replacement_map, NextToken)
    /\ \E m \in mask_token_outcomes(replacement_map, used_masked, NextToken) :
          /\ replacement_map' = Append(replacement_map,
                                       [original |-> NextToken, masked |-> m])
          /\ used_masked' = used_masked \cup {m}
          /\ masked_tokens' = Append(masked_tokens, m)
    /\ UNCHANGED <<mask_text, donot_mask_terms, donot_mask, reverse_map,
                   normalized_reverse_map, unmasked_tokens, mask_pc>>
    /\ UNCHANGED notMaskVars

\* The end of mask_sensitive_info: _build_reverse_map().
MaskBuildReverseMap ==
    /\ mask_pc = "masking"
    /\ Len(masked_tokens) = Len(mask_text)
    /\ reverse_map' = build_reverse_map(replacement_map)
    /\ normalized_reverse_map' = build_normalized_reverse_map(replacement_map)
    /\ mask_pc' = "masked"
    /\ UNCHANGED <<mask_text, donot_mask_terms, donot_mask, replacement_map, used_masked,
                   masked_tokens, unmasked_tokens>>
    /\ UNCHANGED notMaskVars

\* unmask_sensitive_info(masked_text) on the text mask_sensitive_info returned.
UnmaskText ==
    /\ mask_pc = "masked"
    /\ unmasked_tokens' = unmask(reverse_map, normalized_reverse_map, masked_tokens)
    /\ mask_pc' = "unmasked"
    /\ UNCHANGED <<mask_text, donot_mask_terms, donot_mask, replacement_map, used_masked,
                   reverse_map, normalized_reverse_map, masked_tokens>>
    /\ UNCHANGED notMaskVars

MaskNext ==
    \/ MaskKeepToken
    \/ MaskReuseToken
    \/ MaskNewToken
    \/ MaskBuildReverseMap
    \/ UnmaskText


(***************************************************************************)
(* NavigationAgent.run: the turn loop, replay of a recording, tool calls.  *)
(* One action is one turn of the loop, taken down the branch it names.     *)
(***************************************************************************)
\* A chat message. kind is the step_execution of an assistant message
\* ("tool_calls" when it carries tool calls, "empty" for {}), and for a user
\* message what json.loads makes of its content: "success" or "error" for an
\* action result, "text" when the content is no JSON.
Msg(role, kind) ==
    [role |-> role, kind |-> kind, tool_calls |-> <<>>, name |-> "", call_id |-> "",
     result |-> Pending]

UserMsg(kind) == Msg("user", kind)

\* {"role": "assistant", "content": json.dumps(llm_response_json or {})}
AssistantMsg(d) == [Msg("assistant", d.kind) EXCEPT !.tool_calls = d.tool_calls]

\* {"role": "user", "content": "Task Goal: " + task_goal}
TaskGoalMsg == UserMsg("text")

Decision(kind) == [kind |-> kind, tool_calls |-> <<>>]

\* BACK, DISMISS_MODAL, WAIT and CLOSE_CURRENT_TAB take the same path; WAIT stands
\* for the four.
PageLevelKinds == {"WAIT"}

\* The tool-call payloads the model answers with.
RunToolPayloads == { << [id |-> "c1", name |-> "add"] >>,
                     << [id |-> "c1", name |-> ""], [id |-> "c2", name |-> "nope"] >> }

\* What get_llm_response_json_real_time may return.
LiveResponses ==
    {Decision(k) : k \in PageLevelKinds \cup
                         {"SUCCESS", "DELEGATE_TO_USER", "DELEGATE_TO_AGENT", "SEQUENCE",
                          "empty"}}
    \cup {[kind |-> "tool_calls", tool_calls |-> p] : p \in RunToolPayloads}

\* json.loads of a recorded assistant message
response_of(msg) == [kind |-> msg.kind, tool_calls |-> msg.tool_calls]

\* What a recorded turn left in the chat history: the assistant message and
\* the user message the turn appended.
RecordedTurns == { <<AssistantMsg(Decision("SEQUENCE")), UserMsg("success")>>,
                   <<AssistantMsg(Decision("SEQUENCE")), UserMsg("error")>>,
                   <<AssistantMsg(Decision("WAIT")), UserMsg("text")>> }

RECURSIVE concat(_)
concat(seqs) == IF seqs = <<>> THEN <<>> ELSE Head(seqs) \o concat(Tail(seqs))

\* The chat history of a successful run: the task goal, some turns, SUCCESS.
Recordings ==
    {<<TaskGoalMsg>> \o concat(ts) \o <<AssistantMsg(Decision("SUCCESS"))>> :
        ts \in SeqsUpTo(RecordedTurns, MaxRecordedTurns)}

\* recorded_chat_history: None, or a list.
NoHistory == [is_none |-> TRUE, messages |-> <<>>]
History(messages) == [is_none |-> FALSE, messages |-> messages]

\* `if self.record_and_replay_manager.recorded_chat_history`
truthy(hist) == ~hist.is_none /\ hist.messages # <<>>

\* get_llm_response_json_from_recorded_history(), called with using_recording
\* set: pops up to and including the first assistant message.
get_llm_response_json_from_recorded_history(hist) ==
    IF ~truthy(hist)
    THEN [found |-> FALSE, msg |-> TaskGoalMsg, hist |-> hist, using |-> FALSE, npop |-> 0]
    ELSE LET ms == hist.messages
             hits == {i \in 1..Len(ms) : ms[i].role = "assistant"}
         IN IF hits = {}
            THEN [found |-> FALSE, msg |-> TaskGoalMsg, hist |-> History(<<>>),
                  using |-> TRUE, npop |-> Len(ms)]
            ELSE LET k == CHOOSE i \in hits : \A j \in hits : i <= j
                 IN [found |-> TRUE, msg |-> ms[k],
                     hist |-> History(SubSeq(ms, k + 1, Len(ms))),
                     using |-> TRUE, npop |-> k]

\* get_user_response_json_from_recorded_history(), called with using_recording
\* set: pops the head, whatever its role.
get_user_response_json_from_recorded_history(hist) ==
    IF ~truthy(hist)
    THEN [value |-> "none", hist |-> hist, npop |-> 0]
    ELSE LET message == Head(hist.messages)
         IN [value |-> IF message.role = "user" /\ message.kind # "text"
                       THEN message.kind ELSE "none",
             hist |-> History(Tail(hist.messages)),
             npop |-> 1]

\* The re-arming test of line 328 without the look at the recording.
rearm_ignoring_history(hist) == record_and_replay

\* `self.record_and_replay and self.record_and_replay_manager.recorded_chat_history`
rearm(hist) == record_and_replay /\ truthy(hist)

\* `for turns in range(1, max_turns + 1)` with one turn too many.
more_turns_inclusive(t) == t <= max_turns

\* `for turns in range(1, max_turns + 1)`: there is a next turn.
more_turns(t) == t < max_turns

\* Lines 309-317: the recorded response, when replay is in use.
Fetched ==
    IF using_recording
    THEN get_llm_response_json_from_recorded_history(recorded_chat_history)
    ELSE [found |-> FALSE, msg |-> TaskGoalMsg, hist |-> recorded_chat_history,
          using |-> FALSE, npop |-> 0]

\* `llm_response_json` is truthy after the fetch.
ReplayHit == Fetched.found /\ Fetched.msg.kind # "empty"

\* Lines 319-333: the decision of this turn.
Decisions == IF ReplayHit THEN {response_of(Fetched.msg)} ELSE LiveResponses

\* using_recording once the decision is there, had the live call left it as
\* it was.
UsingAfterDecision_not_rearmed == IF ReplayHit THEN TRUE ELSE Fetched.using

\* using_recording once the decision is there (lines 328-330).
UsingAfterDecision ==
    IF ReplayHit THEN TRUE
    ELSE IF rearm(Fetched.hist) THEN TRUE
    ELSE Fetched.using

\* _retry_replay_get_locator_from_text's look at the recording.
Recorded == get_user_response_json_from_recorded_history(Fetched.hist)

\* The results execute_tool_calls returns, serially, for raw_calls.
RECURSIVE serial_results(_)
serial_results(raw) ==
    IF raw = <<>> THEN {<<>>}
    ELSE {<<r>> \o rest : r \in ExecOutcomes(Head(raw)), rest \in serial_results(Tail(raw))}

\* for call, tr in zip(calls, results["tool_results"]): one tool message each
tool_messages(calls, trs) ==
    [k \in 1..(IF Len(calls) < Len(trs) THEN Len(calls) ELSE Len(trs)) |->
        [role |-> "tool", kind |-> "tool", tool_calls |-> <<>>, name |-> calls[k].name,
         call_id |-> trs[k].id, result |-> trs[k]]]

RunIdle ==
    /\ turns = 0
    /\ run_pc = "idle"
    /\ record_and_replay = FALSE
    /\ using_recording = FALSE
    /\ recorded_chat_history = NoHistory
    /\ chat_history = <<>>
    /\ task_successful = FALSE
    /\ recording = <<>>
    /\ popped = 0
    /\ replayed = <<>>
    /\ success_fetched = FALSE
    /\ turn_source = "none"
    /\ turn_kind = "none"
    /\ reviewed = FALSE
    /\ review_decision = "none"
    /\ save_successful_task_only = TRUE
    /\ save_recording_called = FALSE
    /\ reasoning = ""
    /\ raised = "none"
    /\ outcome = "none"
    /\ answer = ""
    /\ exit_code = -1

\* run() up to the url guard: the recording is loaded when there is one.
RunStart ==
    /\ turns = 0
    /\ run_pc = "navigate"
    /\ record_and_replay \in BOOLEAN
    /\ recording \in (IF record_and_replay THEN Recordings ELSE {}) \cup {<<>>}
    /\ recorded_chat_history = IF recording = <<>> THEN NoHistory ELSE History(recording)
    /\ using_recording = (recording # <<>>)
    /\ chat_history = <<>>
    /\ task_successful = FALSE
    /\ popped = 0
    /\ replayed = <<>>
    /\ success_fetched = FALSE
    /\ turn_source = "none"
    /\ turn_kind = "none"
    /\ reviewed = FALSE
    /\ review_decision = "none"
    /\ save_successful_task_only = TRUE
    /\ save_recording_called = FALSE
    /\ reasoning = ""
    /\ raised = "none"
    /\ outcome = "none"
    /\ answer = ""
    /\ exit_code = -1

\* The answers run() returns without a model's reasoning.
NoUrlAnswer == "No URL available to navigate to."
TimeoutAnswer == "Timeout waiting for user to take actions."
ErrorAnswer == "Error occurred. Please check the logs for details."

\* Lines 246-249: no url was given and none could be resolved; run returns
\* before the try block.
NoUrlReturn ==
    /\ run_pc = "navigate"
    /\ run_pc' = "done"
    /\ outcome' = "no_url"
    /\ answer' = NoUrlAnswer
    /\ UNCHANGED <<turns, record_and_replay, using_recording, recorded_chat_history,
                   chat_history, task_successful, recording, popped, replayed,
                   success_fetched, turn_source, turn_kind, reviewed, review_decision,
                   save_successful_task_only, save_recording_called, reasoning, raised,
                   exit_code>>
    /\ UNCHANGED notRunVars

\* Line 251: page.goto raises (the page cannot be reached, or the 60 s run
\* out); the call is outside the try block, so run() raises.
GotoRaises ==
    /\ run_pc = "navigate"
    /\ run_pc' = "propagated"
    /\ outcome' = "navigation_failed"
    /\ raised' = "playwright.Error"
    /\ UNCHANGED <<turns, record_and_replay, using_recording, recorded_chat_history,
                   chat_history, task_successful, recording, popped, replayed,
                   success_fetched, turn_source, turn_kind, reviewed, review_decision,
                   save_successful_task_only, save_recording_called, reasoning, answer,
                   exit_code>>
    /\ UNCHANGED notRunVars

\* Lines 251-262: the page is loaded and the chat history starts.
Navigate ==
    /\ run_pc = "navigate"
    /\ run_pc' = "running"
    /\ chat_history' = <<TaskGoalMsg>>
    /\ UNCHANGED <<turns, record_and_replay, using_recording, recorded_chat_history,
                   task_successful, recording, popped, replayed,
                   success_fetched, turn_source, turn_kind, reviewed, review_decision,
                   save_successful_task_only, save_recording_called, reasoning, raised,
                   outcome, answer, exit_code>>
    /\ UNCHANGED notRunVars

\* No exit from the loop in this step.
StaysInLoop == UNCHANGED <<raised, outcome, answer>>

\* What every turn does first: count the turn, take the decision d.
BeginTurn(d) ==
    /\ run_pc = "running"
    /\ more_turns(turns)
    /\ d \in Decisions
    /\ turns' = turns + 1
    /\ turn_source' = IF ReplayHit THEN "replay" ELSE "live"
    /\ turn_kind' = d.kind
    /\ replayed' = IF ReplayHit THEN Append(replayed, popped + Fetched.npop) ELSE replayed
    /\ reasoning' = IF d.kind = "tool_calls" \/ (ReplayHit /\ d.kind = "SUCCESS")
                     THEN reasoning
                     ELSE "text"
    /\ UNCHANGED <<record_and_replay, recording, save_successful_task_only,
                   save_recording_called, exit_code>>
    /\ UNCHANGED notRunVars

\* The rest of a turn that goes on to the next one without touching replay.
Continue(appended) ==
    /\ chat_history' = chat_history \o appended
    /\ using_recording' = UsingAfterDecision
    /\ recorded_chat_history' = Fetched.hist
    /\ popped' = popped + Fetched.npop
    /\ run_pc' = "running"
    /\ StaysInLoop
    /\ UNCHANGED <<task_successful, success_fetched>>

\* Lines 313-317: the recorded response says SUCCESS.
ReplaySuccess ==
    /\ ReplayHit
    /\ \E d \in Decisions :
          /\ d.kind = "SUCCESS"
          /\ BeginTurn(d)
    /\ using_recording' = FALSE
    /\ recorded_chat_history' = NoHistory
    /\ popped' = popped + Fetched.npop
    /\ success_fetched' = TRUE
    /\ reviewed' = FALSE /\ review_decision' = "none"
    /\ StaysInLoop
    /\ UNCHANGED <<chat_history, task_successful, run_pc>>

\* Lines 340-355: the tool calls are executed and answered.
ToolCallsTurn ==
    \E d \in Decisions :
        /\ d.kind = "tool_calls"
        /\ BeginTurn(d)
        /\ \E trs \in serial_results(extract_calls(d.tool_calls)) :
              Continue(<<AssistantMsg(d)>> \o tool_messages(d.tool_calls, trs))
        /\ reviewed' = FALSE /\ review_decision' = "none"

\* Line 362: BACK, DISMISS_MODAL, WAIT, CLOSE_CURRENT_TAB.
PageLevelTurn ==
    \E d \in Decisions :
        /\ d.kind \in PageLevelKinds
        /\ BeginTurn(d)
        /\ Continue(<<AssistantMsg(d), UserMsg("text")>>)
        /\ reviewed' = FALSE /\ review_decision' = "none"

\* What the reviewer may answer as review_decision; a response without the
\* key counts as "Goal Not Met" (line 707), "goal met" stands for any other text.
ReviewDecisions == {"Goal Met", "Goal Not Met", "goal met"}

\* The review taken as passed whatever it says short of "Goal Not Met".
verify_task_success_response_lenient(review_decision_) == review_decision_ # "Goal Not Met"

\* _verify_task_success_response: `review_decision == "Goal Met"`
verify_task_success_response(review_decision_) == review_decision_ = "Goal Met"

\* Lines 365-368: a live SUCCESS, and the review says Goal Met.
SuccessGoalMet ==
    \E d \in Decisions :
        /\ d.kind = "SUCCESS"
        /\ ~ReplayHit
        /\ BeginTurn(d)
        /\ chat_history' = chat_history \o <<AssistantMsg(d)>>
        /\ using_recording' = UsingAfterDecision
        /\ recorded_chat_history' = Fetched.hist
        /\ popped' = popped + Fetched.npop
        /\ task_successful' = TRUE
        /\ run_pc' = "finally"
        /\ outcome' = "success"
        /\ answer' = reasoning'
        /\ reviewed' = TRUE
        /\ \E rd \in ReviewDecisions :
              /\ verify_task_success_response(rd)
              /\ review_decision' = rd
        /\ UNCHANGED <<success_fetched, raised>>

\* Lines 365-369: a live SUCCESS, and the review says the goal is not met.
SuccessGoalNotMet ==
    \E d \in Decisions :
        /\ d.kind = "SUCCESS"
        /\ ~ReplayHit
        /\ BeginTurn(d)
        /\ Continue(<<AssistantMsg(d), UserMsg("text")>>)
        /\ reviewed' = TRUE
        /\ \E rd \in ReviewDecisions :
              /\ ~verify_task_success_response(rd)
              /\ review_decision' = rd

\* Lines 373-375: the review turns the delegation into a suggestion.
DelegateToUserSuggestion ==
    \E d \in Decisions :
        /\ d.kind = "DELEGATE_TO_USER"
        /\ BeginTurn(d)
        /\ Continue(<<AssistantMsg(d), UserMsg("text")>>)
        /\ reviewed' = FALSE /\ review_decision' = "none"

\* involve_user: the model delegated, the resolver chain delegated, or the
\* OTP step raised.
InvolvesUser(d) == d.kind \in {"DELEGATE_TO_USER", "SEQUENCE"}

\* Lines 408-414: the user resumes.
InvolveUserResumed ==
    \E d \in Decisions :
        /\ InvolvesUser(d)
        /\ BeginTurn(d)
        /\ Continue(<<AssistantMsg(d), UserMsg("text")>>)
        /\ reviewed' = FALSE /\ review_decision' = "none"

\* Lines 408-412: the user does not resume; run returns.
InvolveUserTimeout ==
    \E d \in Decisions :
        /\ InvolvesUser(d)
        /\ BeginTurn(d)
        /\ chat_history' = chat_history \o <<AssistantMsg(d)>>
        /\ using_recording' = UsingAfterDecision
        /\ recorded_chat_history' = Fetched.hist
        /\ popped' = popped + Fetched.npop
        /\ run_pc' = "finally"
        /\ outcome' = "handoff_timeout"
        /\ answer' = TimeoutAnswer
        /\ reviewed' = FALSE /\ review_decision' = "none"
        /\ UNCHANGED <<task_successful, success_fetched, raised>>

\* Lines 387-391: no valid steps in the response.
NoStepsTurn ==
    \E d \in Decisions :
        /\ d.kind \in {"empty", "SEQUENCE", "DELEGATE_TO_AGENT"}
        /\ BeginTurn(d)
        /\ Continue(<<AssistantMsg(d)>>)
        /\ reviewed' = FALSE /\ review_decision' = "none"

\* Lines 393-395: _handle_delegate_to_agent, one step.
DelegateToAgentTurn ==
    \E d \in Decisions :
        /\ d.kind = "DELEGATE_TO_AGENT"
        /\ BeginTurn(d)
        /\ Continue(<<AssistantMsg(d), UserMsg("text")>>)
        /\ reviewed' = FALSE /\ review_decision' = "none"

\* Lines 417-419: a scroll of the page.
ScrollTurn ==
    \E d \in Decisions :
        /\ d.kind = "SEQUENCE"
        /\ BeginTurn(d)
        /\ Continue(<<AssistantMsg(d), UserMsg("text")>>)
        /\ reviewed' = FALSE /\ review_decision' = "none"

\* Lines 421-436 and 459-463: the first locator resolves; the actions are taken.
StepsTaken ==
    \E d \in Decisions :
        /\ d.kind = "SEQUENCE"
        /\ BeginTurn(d)
        /\ \E result \in {"success", "error"} :
              Continue(<<AssistantMsg(d), UserMsg(result)>>)
        /\ reviewed' = FALSE /\ review_decision' = "none"

\* Lines 438 and 448-455: the first locator fails while replay is not in use.
FirstTargetNotFound ==
    \E d \in Decisions :
        /\ d.kind = "SEQUENCE"
        /\ ~UsingAfterDecision
        /\ BeginTurn(d)
        /\ Continue(<<AssistantMsg(d), UserMsg("error")>>)
        /\ reviewed' = FALSE /\ review_decision' = "none"

\* Lines 438-439 and 566-571: replay is in use, and the recording does not
\* show a success next; the message looked at is popped all the same.
RetryNotTried ==
    \E d \in Decisions :
        /\ d.kind = "SEQUENCE"
        /\ UsingAfterDecision
        /\ Recorded.value # "success"
        /\ BeginTurn(d)
        /\ chat_history' = chat_history \o <<AssistantMsg(d), UserMsg("error")>>
        /\ using_recording' = TRUE
        /\ recorded_chat_history' = Recorded.hist
        /\ popped' = popped + Fetched.npop + Recorded.npop
        /\ run_pc' = "running"
        /\ StaysInLoop
        /\ reviewed' = FALSE /\ review_decision' = "none"
        /\ UNCHANGED <<task_successful, success_fetched>>

\* Lines 576-584 and 440-446: a retry finds the locator; the actions are taken.
RetryFound ==
    \E d \in Decisions :
        /\ d.kind = "SEQUENCE"
        /\ UsingAfterDecision
        /\ Recorded.value = "success"
        /\ BeginTurn(d)
        /\ \E result \in {"success", "error"} :
              chat_history' = chat_history \o <<AssistantMsg(d), UserMsg(result)>>
        /\ using_recording' = TRUE
        /\ recorded_chat_history' = Recorded.hist
        /\ popped' = popped + Fetched.npop + Recorded.npop
        /\ run_pc' = "running"
        /\ StaysInLoop
        /\ reviewed' = FALSE /\ review_decision' = "none"
        /\ UNCHANGED <<task_successful, success_fetched>>

\* Lines 588-591: the retries are used up; replay is switched off.
RetryExhausted ==
    \E d \in Decisions :
        /\ d.kind = "SEQUENCE"
        /\ UsingAfterDecision
        /\ Recorded.value = "success"
        /\ BeginTurn(d)
        /\ chat_history' = chat_history \o <<AssistantMsg(d), UserMsg("error")>>
        /\ using_recording' = FALSE
        /\ recorded_chat_history' = Recorded.hist
        /\ popped' = popped + Fetched.npop + Recorded.npop
        /\ run_pc' = "running"
        /\ StaysInLoop
        /\ reviewed' = FALSE /\ review_decision' = "none"
        /\ UNCHANGED <<task_successful, success_fetched>>

\* Lines 349-353 and 466-468: a call of the payload has no "name" key, so
\* `call["name"]` raises KeyError for the first result paired with it.
ToolCallWithoutName ==
    \E d \in Decisions :
        /\ d.kind = "tool_calls"
        /\ BeginTurn(d)
        /\ \E trs \in serial_results(extract_calls(d.tool_calls)) :
              LET msgs == tool_messages(d.tool_calls, trs)
                  bad == {k \in 1..Len(msgs) : d.tool_calls[k].name = ""}
              IN  /\ bad # {}
                  /\ LET first == CHOOSE k \in bad : \A j \in bad : k <= j
                     IN  chat_history' = chat_history \o <<AssistantMsg(d)>>
                                            \o SubSeq(msgs, 1, first - 1)
        /\ using_recording' = UsingAfterDecision
        /\ recorded_chat_history' = Fetched.hist
        /\ popped' = popped + Fetched.npop
        /\ run_pc' = "finally"
        /\ raised' = "KeyError"
        /\ outcome' = "error_in_loop"
        /\ answer' = ErrorAnswer
        /\ reviewed' = FALSE /\ review_decision' = "none"
        /\ UNCHANGED <<task_successful, success_fetched>>

\* Lines 960-973 and 466-468: a scroll of the page whose value is neither
\* "up" nor "down"; `scrolled` is read unassigned.
ScrollInvalidDirection ==
    \E d \in Decisions :
        /\ d.kind = "SEQUENCE"
        /\ BeginTurn(d)
        /\ chat_history' = chat_history \o <<AssistantMsg(d)>>
        /\ using_recording' = UsingAfterDecision
        /\ recorded_chat_history' = Fetched.hist
        /\ popped' = popped + Fetched.npop
        /\ run_pc' = "finally"
        /\ raised' = "UnboundLocalError"
        /\ outcome' = "error_in_loop"
        /\ answer' = ErrorAnswer
        /\ reviewed' = FALSE /\ review_decision' = "none"
        /\ UNCHANGED <<task_successful, success_fetched>>

\* Lines 466-468: the browser is gone (the page, the context or the manager
\* was closed); the first page call of the turn raises and the run ends.
FatalTurn ==
    /\ run_pc = "running"
    /\ more_turns(turns)
    /\ turns' = turns + 1
    /\ run_pc' = "finally"
    /\ raised' = "TargetClosedError"
    /\ outcome' = "error_in_loop"
    /\ answer' = ErrorAnswer
    /\ turn_source' = "none"
    /\ turn_kind' = "none"
    /\ reviewed' = FALSE /\ review_decision' = "none"
    /\ UNCHANGED <<record_and_replay, using_recording, recorded_chat_history, chat_history,
                   task_successful, recording, popped, replayed, success_fetched,
                   save_successful_task_only, save_recording_called, reasoning,
                   exit_code>>
    /\ UNCHANGED notRunVars

\* Line 465: the loop has run max_turns turns.
LoopExhausted ==
    /\ run_pc = "running"
    /\ ~more_turns(turns)
    /\ run_pc' = "finally"
    /\ outcome' = "turn_budget"
    /\ answer' = reasoning
    /\ UNCHANGED <<turns, record_and_replay, using_recording, recorded_chat_history,
                   chat_history, task_successful, recording, popped, replayed,
                   success_fetched, turn_source, turn_kind, reviewed, review_decision,
                   save_successful_task_only, save_recording_called, reasoning, raised,
                   exit_code>>
    /\ UNCHANGED notRunVars

\* Lines 469-481: the run is saved as a recording when it may be.  The config
\* value is read here; either value may be configured.
Finally ==
    /\ run_pc = "finally"
    /\ save_successful_task_only' \in BOOLEAN
    /\ save_recording_called' =
          /\ record_and_replay
          /\ ~using_recording
          /\ (~save_successful_task_only' \/ task_successful)
    /\ recorded_chat_history' =
          IF save_recording_called'
          THEN History(chat_history)
          ELSE recorded_chat_history
    /\ run_pc' = "done"
    /\ UNCHANGED <<turns, record_and_replay, using_recording, chat_history,
                   task_successful, recording, popped, replayed, success_fetched,
                   turn_source, turn_kind, reviewed, review_decision, reasoning, raised, outcome, answer,
                   exit_code>>
    /\ UNCHANGED notRunVars

\* navigation_cli.main: run_single_task returned; the manager is stopped and
\* the process ends normally.
MainReturns ==
    /\ run_pc = "done"
    /\ run_pc' = "exited"
    /\ exit_code' = 0
    /\ UNCHANGED <<turns, record_and_replay, using_recording, recorded_chat_history,
                   chat_history, task_successful, recording, popped, replayed,
                   success_fetched, turn_source, turn_kind, reviewed, review_decision,
                   save_successful_task_only, save_recording_called, reasoning, raised,
                   outcome, answer>>
    /\ UNCHANGED notRunVars

\* navigation_cli.main, `except Exception: ... sys.exit(1)`: run_single_task
\* raised.
MainExits1 ==
    /\ run_pc = "propagated"
    /\ run_pc' = "exited"
    /\ exit_code' = 1
    /\ UNCHANGED <<turns, record_and_replay, using_recording, recorded_chat_history,
                   chat_history, task_successful, recording, popped, replayed,
                   success_fetched, turn_source, turn_kind, reviewed, review_decision,
                   save_successful_task_only, save_recording_called, reasoning, raised,
                   outcome, answer>>
    /\ UNCHANGED notRunVars

RunNext ==
    \/ NoUrlReturn
    \/ GotoRaises
    \/ Navigate
    \/ ReplaySuccess
    \/ ToolCallsTurn
    \/ PageLevelTurn
    \/ SuccessGoalMet
    \/ SuccessGoalNotMet
    \/ DelegateToUserSuggestion
    \/ InvolveUserResumed
    \/ InvolveUserTimeout
    \/ NoStepsTurn
    \/ DelegateToAgentTurn
    \/ ScrollTurn
    \/ StepsTaken
    \/ FirstTargetNotFound
    \/ RetryNotTried
    \/ RetryFound
    \/ RetryExhausted
    \/ ToolCallWithoutName
    \/ ScrollInvalidDirection
    \/ FatalTurn
    \/ LoopExhausted
    \/ Finally
    \/ MainReturns
    \/ MainExits1

(***************************************************************************)
(* Replay substitution (RecordReplayManager.attempt_load_recorded_chat_    *)
(* history, step 3).  Texts are sequences of characters.                   *)
(***************************************************************************)
MaxContentLen == 2
MaxHistoryLen == 1

SubstChars == {"a", "b"}
SubstKeys == {":1", ":2"}
\* Values of placeholders: non-empty texts.
SubstValues == {<<"a">>, <<"b">>, <<"a", "b">>}

\* A dict of placeholder values in its iteration order.
VarDicts ==
    {d \in SeqsUpTo([k : SubstKeys, v : SubstValues], Cardinality(SubstKeys)) :
        \A i, j \in 1..Len(d) : d[i].k = d[j].k => i = j}

\* A message: its "content" is a string or something else (a list, None).
SubstMessages == [is_str : BOOLEAN, content : SeqsUpTo(SubstChars, MaxContentLen)]

\* dict.get(k): the value, or None.
dict_get(d, k) ==
    IF \E i \in 1..Len(d) : d[i].k = k
    THEN d[CHOOSE i \in 1..Len(d) : d[i].k = k].v
    ELSE None

starts_with(s, i, old) ==
    /\ i + Len(old) - 1 <= Len(s)
    /\ SubSeq(s, i, i + Len(old) - 1) = old

RECURSIVE replace_from(_, _, _, _)
replace_from(s, i, old, new) ==
    IF i > Len(s) THEN <<>>
    ELSE IF starts_with(s, i, old)
         THEN new \o replace_from(s, i + Len(old), old, new)
         ELSE <<s[i]>> \o replace_from(s, i + 1, old, new)

\* str.replace(old, new) for a non-empty old: the non-overlapping occurrences
\* of old, found from the left, become new.
str_replace(s, old, new) == replace_from(s, 1, old, new)

\* The loop over recorded_history_variables.items(): one str.replace after
\* the other on the evolving content.
RECURSIVE replace_variables(_, _, _, _)
replace_variables(content, recorded, current, j) ==
    IF j > Len(recorded) THEN content
    ELSE LET new_val == dict_get(current, recorded[j].k)
             next == IF new_val # None
                     THEN str_replace(content, recorded[j].v, new_val)
                     ELSE content
         IN  replace_variables(next, recorded, current, j + 1)

SubstIdle ==
    /\ rr_loaded = <<>>
    /\ recorded_history_variables = <<>>
    /\ current_variables = <<>>
    /\ replaced_history = <<>>
    /\ rr_return = FALSE
    /\ rr_pc = "idle"

\* After fetch_task_recording: a history (empty when no row matched), the
\* variables stored with it and the variables of the current task.
SubstStart ==
    /\ rr_loaded \in SeqsUpTo(SubstMessages, MaxHistoryLen)
    /\ recorded_history_variables \in VarDicts
    /\ current_variables \in VarDicts
    /\ replaced_history = <<>>
    /\ rr_return = FALSE
    /\ rr_pc = "fetched"

\* `if self.recorded_chat_history and self.recorded_history_variables and
\*  self.current_variables:`
replacing_applies ==
    /\ rr_loaded # <<>>
    /\ recorded_history_variables # <<>>
    /\ current_variables # <<>>

BeginReplacing ==
    /\ rr_pc = "fetched"
    /\ replacing_applies
    /\ rr_pc' = "replacing"
    /\ UNCHANGED <<rr_loaded, recorded_history_variables, current_variables,
                   replaced_history, rr_return>>
    /\ UNCHANGED notSubstVars

\* One iteration of `for msg in self.recorded_chat_history` for a string content.
ReplaceInMessage ==
    /\ rr_pc = "replacing"
    /\ Len(replaced_history) < Len(rr_loaded)
    /\ LET msg == rr_loaded[Len(replaced_history) + 1]
       IN  /\ msg.is_str
           /\ replaced_history' = Append(replaced_history,
                  [msg EXCEPT !.content =
                      replace_variables(msg.content, recorded_history_variables,
                                        current_variables, 1)])
    /\ UNCHANGED <<rr_loaded, recorded_history_variables, current_variables,
                   rr_return, rr_pc>>
    /\ UNCHANGED notSubstVars

\* One iteration for a message whose content is not a string: a plain copy.
CopyMessage ==
    /\ rr_pc = "replacing"
    /\ Len(replaced_history) < Len(rr_loaded)
    /\ LET msg == rr_loaded[Len(replaced_history) + 1]
       IN  /\ ~msg.is_str
           /\ replaced_history' = Append(replaced_history, msg)
    /\ UNCHANGED <<rr_loaded, recorded_history_variables, current_variables,
                   rr_return, rr_pc>>
    /\ UNCHANGED notSubstVars

ReturnReplaced ==
    /\ rr_pc = "replacing"
    /\ Len(replaced_history) = Len(rr_loaded)
    /\ rr_return' = TRUE
    /\ rr_pc' = "returned"
    /\ UNCHANGED <<rr_loaded, recorded_history_variables, current_variables,
                   replaced_history>>
    /\ UNCHANGED notSubstVars

\* Step 4: no substitution; the history, if any, is used as loaded.
ReturnAsLoaded ==
    /\ rr_pc = "fetched"
    /\ ~replacing_applies
    /\ replaced_history' = rr_loaded
    /\ rr_return' = (rr_loaded # <<>>)
    /\ rr_pc' = "returned"
    /\ UNCHANGED <<rr_loaded, recorded_history_variables, current_variables>>
    /\ UNCHANGED notSubstVars

SubstNext ==
    \/ BeginReplacing
    \/ ReplaceInMessage
    \/ CopyMessage
    \/ ReturnReplaced
    \/ ReturnAsLoaded

(***************************************************************************)
(* The recording store (RecordReplayManager.save_recording on the          *)
(* replay_tasks table of init_db).                                         *)
(***************************************************************************)
MaxSaves == 3

\* SQL NULL, which Python's None is bound to.
Null == "<NULL>"

SiteNames == {"s1", "s2"}
TaskHashes == {"t1"}
\* parameterized_task_hash is None until a parameterized fetch computes it.
ParameterizedHashes == {"p1", Null}
\* recorded_chat_history as json.dumps renders it.
ChatHistories == {"h1", "h2"}

\* SQL's `a = b` in a WHERE clause: never satisfied when either side is NULL.
sql_equal(a, b) == a # Null /\ b # Null /\ a = b

\* DELETE FROM replay_tasks WHERE site_name = ? AND task_hash = ? AND
\* parameterized_task_hash = ?
delete_matching(rows, site_name, task_hash, parameterized_task_hash) ==
    SelectSeq(rows, LAMBDA row :
        ~(/\ sql_equal(row.site_name, site_name)
          /\ sql_equal(row.task_hash, task_hash)
          /\ sql_equal(row.parameterized_task_hash, parameterized_task_hash)))

StoreIdle ==
    /\ replay_tasks = <<>>
    /\ saved = <<>>
    /\ save_raised = FALSE
    /\ saves = 0

\* After init_db on a fresh database: the table exists and is empty.
StoreStart == StoreIdle

\* save_recording with a chat history: delete, insert, commit.
SaveRecording ==
    /\ saves < MaxSaves
    /\ \E site_name \in SiteNames, task_hash \in TaskHashes,
          parameterized_task_hash \in ParameterizedHashes,
          chat_history_str \in ChatHistories :
        LET row == [task_id |-> saves + 1,
                    site_name |-> site_name,
                    task_hash |-> task_hash,
                    parameterized_task_hash |-> parameterized_task_hash,
                    chat_history |-> chat_history_str]
        IN  /\ replay_tasks' = Append(delete_matching(replay_tasks, site_name, task_hash,
                                                      parameterized_task_hash), row)
            /\ saved' = Append(saved, row)
    /\ save_raised' = FALSE
    /\ saves' = saves + 1
    /\ UNCHANGED notStoreVars

\* save_recording with recorded_chat_history None: ValueError before the table
\* is touched.
SaveRaises ==
    /\ saves < MaxSaves
    /\ save_raised' = TRUE
    /\ saves' = saves + 1
    /\ UNCHANGED <<replay_tasks, saved>>
    /\ UNCHANGED notStoreVars

StoreNext ==
    \/ SaveRecording
    \/ SaveRaises

(***************************************************************************)
(* Browser Session Manager (util/cdp_browser.py).  The tasks of the event  *)
(* loop interleave at their awaits; what runs between two awaits is one    *)
(* step.                                                                   *)
(***************************************************************************)
MaxManagers == 2
MaxBmCalls == 3
MaxSignals == 1

\* Tasks that call get_instance/stop_instance, and the task handle_signal creates.
Callers == {"t1", "t2"}
SignalTask == "sig"
BmTasks == Callers \cup {SignalTask}

\* --cdp_endpoint: not given, "auto", an http or ws URL, host:port without scheme.
NoEndpoint == [given |-> FALSE, scheme |-> "", hostport |-> ""]
CdpEndpoints ==
    { NoEndpoint,
      [given |-> TRUE, scheme |-> "", hostport |-> "auto"],
      [given |-> TRUE, scheme |-> "http", hostport |-> "remote:9333"],
      [given |-> TRUE, scheme |-> "ws", hostport |-> "remote:9333"],
      [given |-> TRUE, scheme |-> "", hostport |-> "remote:9333"] }

\* remote_debugging_host:remote_debugging_port
DefaultEndpoint == "localhost:9222"

\* _effective_cdp_endpoint, as host:port
effective_cdp_endpoint(e) ==
    IF e.given /\ e.scheme \in {"http", "https", "ws", "wss"}
    THEN e.hostport
    ELSE DefaultEndpoint

\* navigation_cli.run_single_task: attach_mode
attach_mode(e) == e.given /\ e.hostport # "" /\ e.hostport # "auto"

\* get_instance's connect_only: no caller passes it, so it has its default.
connect_only == FALSE

\* BrowserManager.__init__
new_manager ==
    [created |-> TRUE, stopped |-> FALSE, browser_context |-> "none",
     playwright |-> FALSE, chrome_process |-> "none", connected_to |-> "",
     spawned |-> 0, context_closes |-> 0, terminates |-> 0]

no_manager == [new_manager EXCEPT !.created = FALSE]

\* start(): whether _launch_browser is called
launches_browser == ~connect_only /\ ~bm_in_container

\* _shutdown_browser: terminate the process we spawned, if any
shutdown_browser(mg) ==
    [mg EXCEPT !.chrome_process = "none",
               !.terminates = IF mg.chrome_process = "running" THEN @ + 1 ELSE @]

\* Nothing of manager m is open, and no stop() of it is under way.
shutdown_complete(m) ==
    /\ managers[m].browser_context = "none"
    /\ ~managers[m].playwright
    /\ managers[m].chrome_process = "none"
    /\ \A t \in BmTasks :
          task_mgr[t] = m => task_pc[t] \notin {"closing", "stopping_playwright"}

\* stop() up to its first await: the managers afterwards, where the call is
\* suspended ("returned" when it is over) and whether it returned on `stopped`
\* while the shutdown was not over.
stop(m) ==
    LET mg == managers[m]
        marked == [mg EXCEPT !.stopped = TRUE]
    IN  IF mg.stopped
        THEN [managers |-> managers, pc |-> "returned", early |-> ~shutdown_complete(m)]
        ELSE IF mg.browser_context = "open"
        THEN [managers |-> [managers EXCEPT ![m] =
                              [marked EXCEPT !.context_closes = @ + 1]],
              pc |-> "closing", early |-> FALSE]
        ELSE IF mg.playwright
        THEN [managers |-> [managers EXCEPT ![m] = marked],
              pc |-> "stopping_playwright", early |-> FALSE]
        ELSE [managers |-> [managers EXCEPT ![m] = shutdown_browser(marked)],
              pc |-> "returned", early |-> FALSE]

\* What the end of stop() means for task t: stop_instance clears _instance and
\* leaves the lock; the signal's task just ends.
AfterStop(t, pc) ==
    /\ task_pc' = [task_pc EXCEPT ![t] = IF pc = "returned" THEN "idle" ELSE pc]
    /\ task_mgr' = [task_mgr EXCEPT ![t] = IF pc = "returned" THEN 0 ELSE @]
    /\ bm_instance' = IF pc = "returned" /\ t \in Callers THEN 0 ELSE bm_instance
    /\ bm_lock' = IF t \in Callers
                  THEN (IF pc = "returned" THEN "free" ELSE t)
                  ELSE bm_lock

BmIdle ==
    /\ bm_cdp_endpoint = NoEndpoint
    /\ bm_in_container = FALSE
    /\ bm_instance = 0
    /\ bm_lock = "free"
    /\ managers = [m \in 1..MaxManagers |-> no_manager]
    /\ signal_target = 0
    /\ task_pc = [t \in BmTasks |-> "idle"]
    /\ task_mgr = [t \in BmTasks |-> 0]
    /\ bm_calls = 0
    /\ bm_signals = 0
    /\ early_returns = 0

\* The process has started: no manager yet.
BmStart ==
    /\ bm_cdp_endpoint \in CdpEndpoints
    /\ bm_in_container \in BOOLEAN
    /\ bm_instance = 0
    /\ bm_lock = "free"
    /\ managers = [m \in 1..MaxManagers |-> no_manager]
    /\ signal_target = 0
    /\ task_pc = [t \in BmTasks |-> "idle"]
    /\ task_mgr = [t \in BmTasks |-> 0]
    /\ bm_calls = 0
    /\ bm_signals = 0
    /\ early_returns = 0

BmConfigUnchanged == UNCHANGED <<bm_cdp_endpoint, bm_in_container>>

\* get_instance finds an instance: it is returned as it is.
GetInstanceExisting(t) ==
    /\ task_pc[t] = "idle"
    /\ bm_lock = "free"
    /\ bm_calls < MaxBmCalls
    /\ bm_instance # 0
    /\ bm_calls' = bm_calls + 1
    /\ BmConfigUnchanged
    /\ UNCHANGED <<bm_instance, bm_lock, managers, signal_target, task_pc, task_mgr,
                   bm_signals, early_returns>>
    /\ UNCHANGED notBmVars

\* get_instance creates the instance and start() runs up to its first await:
\* the signal handlers are installed.
GetInstanceCreate(t) ==
    /\ task_pc[t] = "idle"
    /\ bm_lock = "free"
    /\ bm_calls < MaxBmCalls
    /\ bm_instance = 0
    /\ \E m \in 1..MaxManagers :
          /\ ~managers[m].created
          /\ \A k \in 1..(m - 1) : managers[k].created
          /\ managers' = [managers EXCEPT ![m] = new_manager]
          /\ bm_instance' = m
          /\ signal_target' = m
          /\ task_mgr' = [task_mgr EXCEPT ![t] = m]
    /\ bm_lock' = t
    /\ task_pc' = [task_pc EXCEPT ![t] = IF launches_browser THEN "launching"
                                        ELSE "connecting"]
    /\ bm_calls' = bm_calls + 1
    /\ BmConfigUnchanged
    /\ UNCHANGED <<bm_signals, early_returns>>
    /\ UNCHANGED notBmVars

\* _launch_browser: the process is spawned.
LaunchDone(t) ==
    /\ task_pc[t] = "launching"
    /\ managers' = [managers EXCEPT ![task_mgr[t]] =
                      [@ EXCEPT !.chrome_process = "running", !.spawned = @ + 1]]
    /\ task_pc' = [task_pc EXCEPT ![t] = "connecting"]
    /\ BmConfigUnchanged
    /\ UNCHANGED <<bm_instance, bm_lock, signal_target, task_mgr, bm_calls, bm_signals,
                   early_returns>>
    /\ UNCHANGED notBmVars

\* _connect_over_cdp succeeds; get_instance returns.
ConnectDone(t) ==
    /\ task_pc[t] = "connecting"
    /\ managers' = [managers EXCEPT ![task_mgr[t]] =
                      [@ EXCEPT !.browser_context = "open", !.playwright = TRUE,
                                !.connected_to = effective_cdp_endpoint(bm_cdp_endpoint)]]
    /\ task_pc' = [task_pc EXCEPT ![t] = "idle"]
    /\ task_mgr' = [task_mgr EXCEPT ![t] = 0]
    /\ bm_lock' = "free"
    /\ BmConfigUnchanged
    /\ UNCHANGED <<bm_instance, signal_target, bm_calls, bm_signals, early_returns>>
    /\ UNCHANGED notBmVars

\* _connect_over_cdp fails three times; get_instance raises, _instance stays.
ConnectFails(t) ==
    /\ task_pc[t] = "connecting"
    /\ task_pc' = [task_pc EXCEPT ![t] = "idle"]
    /\ task_mgr' = [task_mgr EXCEPT ![t] = 0]
    /\ bm_lock' = "free"
    /\ BmConfigUnchanged
    /\ UNCHANGED <<bm_instance, managers, signal_target, bm_calls, bm_signals,
                   early_returns>>
    /\ UNCHANGED notBmVars

\* stop_instance without an instance.
StopInstanceNone(t) ==
    /\ task_pc[t] = "idle"
    /\ bm_lock = "free"
    /\ bm_calls < MaxBmCalls
    /\ bm_instance = 0
    /\ bm_calls' = bm_calls + 1
    /\ BmConfigUnchanged
    /\ UNCHANGED <<bm_instance, bm_lock, managers, signal_target, task_pc, task_mgr,
                   bm_signals, early_returns>>
    /\ UNCHANGED notBmVars

\* stop_instance with an instance: stop() is called under the lock.
StopInstance(t) ==
    /\ task_pc[t] = "idle"
    /\ bm_lock = "free"
    /\ bm_calls < MaxBmCalls
    /\ bm_instance # 0
    /\ LET r == stop(bm_instance)
       IN  /\ managers' = r.managers
           /\ early_returns' = early_returns + (IF r.early THEN 1 ELSE 0)
           /\ task_pc' = [task_pc EXCEPT ![t] = IF r.pc = "returned" THEN "idle" ELSE r.pc]
           /\ task_mgr' = [task_mgr EXCEPT ![t] = IF r.pc = "returned" THEN 0
                                                  ELSE bm_instance]
           /\ bm_instance' = IF r.pc = "returned" THEN 0 ELSE bm_instance
           /\ bm_lock' = IF r.pc = "returned" THEN "free" ELSE t
    /\ bm_calls' = bm_calls + 1
    /\ BmConfigUnchanged
    /\ UNCHANGED <<signal_target, bm_signals>>
    /\ UNCHANGED notBmVars

\* SIGINT or SIGTERM: handle_signal creates a task for self.stop().
Signal ==
    /\ signal_target # 0
    /\ bm_signals < MaxSignals
    /\ task_pc[SignalTask] = "idle"
    /\ task_pc' = [task_pc EXCEPT ![SignalTask] = "stop_pending"]
    /\ task_mgr' = [task_mgr EXCEPT ![SignalTask] = signal_target]
    /\ bm_signals' = bm_signals + 1
    /\ BmConfigUnchanged
    /\ UNCHANGED <<bm_instance, bm_lock, managers, signal_target, bm_calls,
                   early_returns>>
    /\ UNCHANGED notBmVars

\* The signal's task runs stop(), without the lock.
SignalStop ==
    /\ task_pc[SignalTask] = "stop_pending"
    /\ LET r == stop(task_mgr[SignalTask])
       IN  /\ managers' = r.managers
           /\ early_returns' = early_returns + (IF r.early THEN 1 ELSE 0)
           /\ AfterStop(SignalTask, r.pc)
    /\ BmConfigUnchanged
    /\ UNCHANGED <<signal_target, bm_calls, bm_signals>>
    /\ UNCHANGED notBmVars

\* _close_browser_context: browser_context.close() is over.
ContextClosed(t) ==
    /\ task_pc[t] = "closing"
    /\ LET m == task_mgr[t]
           closed == [managers[m] EXCEPT !.browser_context = "none"]
       IN  IF closed.playwright
           THEN /\ managers' = [managers EXCEPT ![m] = closed]
                /\ AfterStop(t, "stopping_playwright")
           ELSE /\ managers' = [managers EXCEPT ![m] = shutdown_browser(closed)]
                /\ AfterStop(t, "returned")
    /\ BmConfigUnchanged
    /\ UNCHANGED <<signal_target, bm_calls, bm_signals, early_returns>>
    /\ UNCHANGED notBmVars

\* playwright.stop() is over; _shutdown_browser runs and stop() returns.
PlaywrightStopped(t) ==
    /\ task_pc[t] = "stopping_playwright"
    /\ LET m == task_mgr[t]
       IN  managers' = [managers EXCEPT ![m] =
                           shutdown_browser([managers[m] EXCEPT !.playwright = FALSE])]
    /\ AfterStop(t, "returned")
    /\ BmConfigUnchanged
    /\ UNCHANGED <<signal_target, bm_calls, bm_signals, early_returns>>
    /\ UNCHANGED notBmVars

BmNext ==
    \/ \E t \in Callers : GetInstanceExisting(t)
    \/ \E t \in Callers : GetInstanceCreate(t)
    \/ \E t \in Callers : LaunchDone(t)
    \/ \E t \in Callers : ConnectDone(t)
    \/ \E t \in Callers : ConnectFails(t)
    \/ \E t \in Callers : StopInstanceNone(t)
    \/ \E t \in Callers : StopInstance(t)
    \/ Signal
    \/ SignalStop
    \/ \E t \in BmTasks : ContextClosed(t)
    \/ \E t \in BmTasks : PlaywrightStopped(t)

(***************************************************************************)
(* Remote tools: MCPToolRegistry.execute, its proxy functions, and the     *)
(* way their results are recorded by the executor and the turn loop.       *)
(***************************************************************************)
\* A JSON value of a property: a string, a string of digits, an integer, or
\* the property is absent.
JsonValues == {"text", "digits", "integer", "absent"}

\* Arguments: the property "path" and one more property "extra".
McpArguments == [path : JsonValues, extra : {"text", "absent"}]

\* input_schema: None, or an object schema for the property "path".
McpSchemas ==
    [given : BOOLEAN, path_type : {"string", "integer"}, path_required : BOOLEAN,
     additionalProperties : BOOLEAN]

\* _coerce_json_scalar: a string of digits becomes an int.
coerce_json_scalar(v) == IF v = "digits" THEN "integer" ELSE v

\* _filter_kwargs_for for a function with **kwargs: every argument, coerced.
filter_kwargs(args) == [path |-> coerce_json_scalar(args.path),
                        extra |-> coerce_json_scalar(args.extra)]

\* `tool.input_schema or {"type": "object", "properties": {}, "additionalProperties": True}`
schema_or_default(schema) ==
    IF schema.given THEN [schema EXCEPT !.given = TRUE]
    ELSE [given |-> FALSE, path_type |-> "any", path_required |-> FALSE,
          additionalProperties |-> TRUE]

\* JSON Schema's "type" for a value.
has_type(v, type) ==
    CASE type = "string" -> v \in {"text", "digits"}
      [] type = "integer" -> v = "integer"
      [] OTHER -> TRUE

\* jsonschema.validate(instance=args, schema=schema) does not raise.
validates(args, schema) ==
    LET s == schema_or_default(schema)
    IN  /\ s.path_required => args.path # "absent"
        /\ args.path # "absent" => has_type(args.path, s.path_type)
        /\ (s.given /\ ~s.additionalProperties) => args.extra = "absent"

\* jsonschema.validate replaced by a check that accepts everything.
validates_anything(args, schema) == TRUE

\* A JSON value that is returned or recorded: the server's data, a dict
\* {"ok": False, "error": ...}, a dict {"error": ...}, or nothing.
NoJson == [kind |-> "none", error |-> ""]
ServerData == [kind |-> "data", error |-> ""]
ok_false(error) == [kind |-> "ok_false_error", error |-> error]
error_only(error) == [kind |-> "error", error |-> error]

NoCallResult == [ok |-> FALSE, called |-> FALSE, error |-> ""]
NoToolResult == [ok |-> FALSE, result |-> NoJson, error |-> "none"]

McpIdle ==
    /\ mcp_via = "tools"
    /\ mcp_schema = [given |-> FALSE, path_type |-> "string", path_required |-> FALSE,
                     additionalProperties |-> FALSE]
    /\ mcp_arguments = [path |-> "absent", extra |-> "absent"]
    /\ mcp_server = "data"
    /\ mcp_server_calls = 0
    /\ mcp_call_result = NoCallResult
    /\ proxy_return = NoJson
    /\ tool_result = NoToolResult
    /\ tool_message = NoJson
    /\ mcp_raised = FALSE
    /\ mcp_pc = "idle"

\* The model's response holds a call of the remote tool.
McpStart ==
    /\ mcp_via \in {"tools", "mcp_tool_registry"}
    /\ mcp_schema \in McpSchemas
    /\ mcp_arguments \in McpArguments
    /\ mcp_server \in {"data", "error"}
    /\ mcp_server_calls = 0
    /\ mcp_call_result = NoCallResult
    /\ proxy_return = NoJson
    /\ tool_result = NoToolResult
    /\ tool_message = NoJson
    /\ mcp_raised = FALSE
    /\ mcp_pc = "called"

McpInputsUnchanged == UNCHANGED <<mcp_via, mcp_schema, mcp_arguments, mcp_server>>

\* NavigationAgent._merge_tools asks the registry for as_python_proxy_tools,
\* which MCPToolRegistry does not have; the AttributeError is logged and the
\* remote tools are left out, so the executor does not know the tool.
ExecuteUnknownTool ==
    /\ mcp_pc = "called"
    /\ mcp_via = "mcp_tool_registry"
    /\ tool_result' = [ok |-> FALSE, result |-> NoJson, error |-> "Unknown tool"]
    /\ mcp_pc' = "result"
    /\ McpInputsUnchanged
    /\ UNCHANGED <<mcp_server_calls, mcp_call_result, proxy_return, tool_message,
                   mcp_raised>>
    /\ UNCHANGED notMcpVars

\* MCPToolRegistry.execute: the arguments do not validate.
ExecuteSchemaFails ==
    /\ mcp_pc = "called"
    /\ mcp_via = "tools"
    /\ ~validates(filter_kwargs(mcp_arguments), mcp_schema)
    /\ mcp_call_result' = [ok |-> FALSE, called |-> TRUE,
                           error |-> "Schema validation failed"]
    /\ mcp_pc' = "executed"
    /\ McpInputsUnchanged
    /\ UNCHANGED <<mcp_server_calls, proxy_return, tool_result, tool_message, mcp_raised>>
    /\ UNCHANGED notMcpVars

\* MCPToolRegistry.execute: the arguments validate; the server is called.
ExecuteDelegates ==
    /\ mcp_pc = "called"
    /\ mcp_via = "tools"
    /\ validates(filter_kwargs(mcp_arguments), mcp_schema)
    /\ mcp_server_calls' = mcp_server_calls + 1
    /\ mcp_call_result' = IF mcp_server = "data"
                          THEN [ok |-> TRUE, called |-> TRUE, error |-> ""]
                          ELSE [ok |-> FALSE, called |-> TRUE, error |-> "server error"]
    /\ mcp_pc' = "executed"
    /\ McpInputsUnchanged
    /\ UNCHANGED <<proxy_return, tool_result, tool_message, mcp_raised>>
    /\ UNCHANGED notMcpVars

\* _mcp_proxy: the data, or {"ok": False, "error": res.error}.
ProxyReturns ==
    /\ mcp_pc = "executed"
    /\ proxy_return' = IF mcp_call_result.ok THEN ServerData
                       ELSE ok_false(mcp_call_result.error)
    /\ mcp_pc' = "proxied"
    /\ McpInputsUnchanged
    /\ UNCHANGED <<mcp_server_calls, mcp_call_result, tool_result, tool_message,
                   mcp_raised>>
    /\ UNCHANGED notMcpVars

\* _execute_single: the proxy returned, so the call counts as ok.
ExecuteSingleReturns ==
    /\ mcp_pc = "proxied"
    /\ tool_result' = [ok |-> TRUE, result |-> proxy_return, error |-> "none"]
    /\ mcp_pc' = "result"
    /\ McpInputsUnchanged
    /\ UNCHANGED <<mcp_server_calls, mcp_call_result, proxy_return, tool_message,
                   mcp_raised>>
    /\ UNCHANGED notMcpVars

\* run: `payload = tr["result"] if tr["ok"] else {"error": tr["error"]}` is
\* appended as the tool message, and the loop continues.
AppendToolMessage ==
    /\ mcp_pc = "result"
    /\ tool_message' = IF tool_result.ok THEN tool_result.result
                       ELSE error_only(tool_result.error)
    /\ mcp_pc' = "next_turn"
    /\ McpInputsUnchanged
    /\ UNCHANGED <<mcp_server_calls, mcp_call_result, proxy_return, tool_result,
                   mcp_raised>>
    /\ UNCHANGED notMcpVars

McpNext ==
    \/ ExecuteUnknownTool
    \/ ExecuteSchemaFails
    \/ ExecuteDelegates
    \/ ProxyReturns
    \/ ExecuteSingleReturns
    \/ AppendToolMessage

(***************************************************************************)
(* Hand-off to a human: wait_for_user_resume polls the page flag that the   *)
(* control bar sets, while the user acts on the page.                      *)
(***************************************************************************)
MaxPolls == 3

\* `while polling_times > 0` with one poll too many.
keeps_polling_inclusive(p) == p >= 0

\* `while polling_times > 0`
keeps_polling(p) == p > 0

HilIdle ==
    /\ hil_polling_times = 0
    /\ polling_times = 0
    /\ polls = 0
    /\ sleeps = 0
    /\ surfariMode = "false"
    /\ page_context = "alive"
    /\ control_bar_removed = FALSE
    /\ hil_answer = ""
    /\ hil_pc = "idle"

\* inject_control_bar has set window.surfariMode = false; the counter is read
\* from the config.
HilStart ==
    /\ hil_polling_times \in 0..MaxPolls
    /\ polling_times = hil_polling_times
    /\ polls = 0
    /\ sleeps = 0
    /\ surfariMode = "false"
    /\ page_context = "alive"
    /\ control_bar_removed = FALSE
    /\ hil_answer = ""
    /\ hil_pc = "test"

HilWaiting == hil_pc \in {"test", "sleep"}

\* The user presses the control bar's button: automation is switched on again.
UserResumes ==
    /\ HilWaiting
    /\ page_context = "alive"
    /\ surfariMode = "false"
    /\ surfariMode' = "true"
    /\ UNCHANGED <<hil_polling_times, polling_times, polls, sleeps, page_context,
                   control_bar_removed, hil_answer, hil_pc>>
    /\ UNCHANGED notHilVars

\* The user's actions make the page navigate: the execution context of the
\* old document is destroyed.
UserNavigates ==
    /\ HilWaiting
    /\ page_context = "alive"
    /\ page_context' = "destroyed"
    /\ UNCHANGED <<hil_polling_times, polling_times, polls, sleeps, surfariMode,
                   control_bar_removed, hil_answer, hil_pc>>
    /\ UNCHANGED notHilVars

\* The new document has loaded: it has no surfariMode.
PageLoaded ==
    /\ HilWaiting
    /\ page_context = "destroyed"
    /\ page_context' = "alive"
    /\ surfariMode' = "undefined"
    /\ UNCHANGED <<hil_polling_times, polling_times, polls, sleeps,
                   control_bar_removed, hil_answer, hil_pc>>
    /\ UNCHANGED notHilVars

\* The user closes the page.
UserClosesPage ==
    /\ HilWaiting
    /\ page_context = "alive"
    /\ page_context' = "closed"
    /\ UNCHANGED <<hil_polling_times, polling_times, polls, sleeps, surfariMode,
                   control_bar_removed, hil_answer, hil_pc>>
    /\ UNCHANGED notHilVars

\* One pass of the loop body up to the evaluate call.
Poll ==
    /\ hil_pc = "test"
    /\ keeps_polling(polling_times)
    /\ polling_times' = polling_times - 1
    /\ polls' = polls + 1
    /\ UNCHANGED <<hil_polling_times, sleeps, surfariMode, page_context>>
    /\ UNCHANGED notHilVars

\* Lines 718-725: the flag is gone or set again; the wait returns True and
\* run appends the user's message and continues.
PollSeesResume ==
    /\ Poll
    /\ page_context = "alive"
    /\ surfariMode \in {"true", "undefined"}
    /\ control_bar_removed' = (surfariMode = "true")
    /\ hil_pc' = "resumed"
    /\ UNCHANGED hil_answer

\* Lines 726-730: "Execution context was destroyed".
PollSeesNavigation ==
    /\ Poll
    /\ page_context = "destroyed"
    /\ hil_pc' = "resumed"
    /\ UNCHANGED <<control_bar_removed, hil_answer>>

\* Lines 731-732: any other playwright Error is raised again; run's
\* `except Exception` answers for it.
PollRaises ==
    /\ Poll
    /\ page_context = "closed"
    /\ hil_pc' = "raised"
    /\ hil_answer' = ErrorAnswer
    /\ UNCHANGED control_bar_removed

\* Lines 718-722 and 734-736: the flag is still false; sleep comes next.
PollSeesManual ==
    /\ Poll
    /\ page_context = "alive"
    /\ surfariMode = "false"
    /\ hil_pc' = "sleep"
    /\ UNCHANGED <<control_bar_removed, hil_answer>>

\* Line 736: asyncio.sleep(1) is over.
SleepOver ==
    /\ hil_pc = "sleep"
    /\ sleeps' = sleeps + 1
    /\ hil_pc' = "test"
    /\ UNCHANGED <<hil_polling_times, polling_times, polls, surfariMode, page_context,
                   control_bar_removed, hil_answer>>
    /\ UNCHANGED notHilVars

\* Lines 738-739 and run lines 410-412: the counter is used up.
WaitTimesOut ==
    /\ hil_pc = "test"
    /\ ~keeps_polling(polling_times)
    /\ hil_pc' = "timeout"
    /\ hil_answer' = TimeoutAnswer
    /\ UNCHANGED <<hil_polling_times, polling_times, polls, sleeps, surfariMode,
                   page_context, control_bar_removed>>
    /\ UNCHANGED notHilVars

\* The steps of the agent's task.
HilAgentNext ==
    \/ PollSeesResume
    \/ PollSeesNavigation
    \/ PollRaises
    \/ PollSeesManual
    \/ SleepOver
    \/ WaitTimesOut

HilNext ==
    \/ UserResumes
    \/ UserNavigates
    \/ PageLoaded
    \/ UserClosesPage
    \/ PollSeesResume
    \/ PollSeesNavigation
    \/ PollRaises
    \/ PollSeesManual
    \/ SleepOver
    \/ WaitTimesOut

(***************************************************************************)
(* Delegation to a sub-agent: _handle_delegate_to_agent.  Names are        *)
(* strings over an upper-case letter, its lower-case form, another letter   *)
(* and the space.                                                          *)
(***************************************************************************)
MaxSites == 2
MaxDelegSteps == 2

\* The targets a step may name: "erp", "fin", " " and the empty or missing one.
DelegNames == {<<"a">>, <<"b">>, <<" ">>, <<>>}

\* The configured sites: "ERP", " ERP" or no name, with or without a url.
DelegSites == [site_name : {<<"A">>, <<" ", "A">>, <<>>}, has_url : BOOLEAN]

DelegSteps == [target : DelegNames, has_value : BOOLEAN]

\* str.lower()
lower_name(s) == [i \in 1..Len(s) |-> IF s[i] = "A" THEN "a" ELSE s[i]]

\* `(s.get("site_name", "") or "").strip().lower()` and `target.strip().lower()`
site_key(name) == lower_name(strip(name))

\* The dict comprehension of lines 496-499: a later site replaces an earlier
\* one with the same key.
site_index(sites) ==
    [k \in {site_key(sites[i].site_name) : i \in 1..Len(sites)} |->
        LET hits == {i \in 1..Len(sites) : site_key(sites[i].site_name) = k}
        IN  sites[CHOOSE i \in hits : \A j \in hits : j <= i]]

NoSite == [site_name |-> <<>>, has_url |-> FALSE]

\* A lookup that falls back to some configured site.
site_get_or_any(index, key) ==
    IF key \in DOMAIN index THEN [found |-> TRUE, site |-> index[key]]
    ELSE IF DOMAIN index # {}
    THEN [found |-> TRUE, site |-> index[CHOOSE k \in DOMAIN index : TRUE]]
    ELSE [found |-> FALSE, site |-> NoSite]

\* site_index.get(key)
site_get(index, key) ==
    IF key \in DOMAIN index THEN [found |-> TRUE, site |-> index[key]]
    ELSE [found |-> FALSE, site |-> NoSite]

\* `", ".join(sorted(k for k in site_index.keys() if k))`, or 'N/A': the keys
\* that are listed; the empty set reads N/A.
allowed_sites(index) == {k \in DOMAIN index : k # <<>>}

DelegMessage(kind, target, allowed) == [kind |-> kind, target |-> target, allowed |-> allowed]

DelegIdle ==
    /\ agent_delegation_site_list = <<>>
    /\ deleg_steps = <<>>
    /\ deleg_done = 0
    /\ deleg_messages = <<>>
    /\ sub_agents = <<>>
    /\ pages_opened = 0
    /\ pages_closed = 0
    /\ deleg_pc = "idle"

\* run has found a non-empty list of steps in a DELEGATE_TO_AGENT response.
DelegStart ==
    /\ agent_delegation_site_list \in SeqsUpTo(DelegSites, MaxSites)
    /\ deleg_steps \in SeqsUpTo(DelegSteps, MaxDelegSteps) \ {<<>>}
    /\ deleg_done = 0
    /\ deleg_messages = <<>>
    /\ sub_agents = <<>>
    /\ pages_opened = 0
    /\ pages_closed = 0
    /\ deleg_pc = "steps"

DelegStep == deleg_steps[deleg_done + 1]

DelegLookup == site_get(site_index(agent_delegation_site_list), site_key(DelegStep.target))

\* `if not target or not value`
invalid_delegation_step(step) == step.target = <<>> \/ ~step.has_value

\* `if not site or not url`
site_not_found(found) == ~found.found \/ ~found.site.has_url

\* The step at hand is taken, and m is appended for it.
DelegHandled(m) ==
    /\ deleg_pc = "steps"
    /\ deleg_done < Len(deleg_steps)
    /\ deleg_done' = deleg_done + 1
    /\ deleg_messages' = Append(deleg_messages, m)
    /\ UNCHANGED <<agent_delegation_site_list, deleg_steps, deleg_pc>>
    /\ UNCHANGED notDelegVars

\* Lines 505-511.
DelegInvalidStep ==
    /\ deleg_pc = "steps" /\ deleg_done < Len(deleg_steps)
    /\ invalid_delegation_step(DelegStep)
    /\ DelegHandled(DelegMessage("invalid_step", <<>>, {}))
    /\ UNCHANGED <<sub_agents, pages_opened, pages_closed>>

\* Lines 513-522.
DelegSiteNotFound ==
    /\ deleg_pc = "steps" /\ deleg_done < Len(deleg_steps)
    /\ ~invalid_delegation_step(DelegStep)
    /\ site_not_found(DelegLookup)
    /\ DelegHandled(DelegMessage("site_not_found", DelegStep.target,
                                 allowed_sites(site_index(agent_delegation_site_list))))
    /\ UNCHANGED <<sub_agents, pages_opened, pages_closed>>

\* Lines 524-547 and 554-559: a page is opened, the sub-agent runs on it,
\* its result is appended and the page is closed.
DelegRuns ==
    /\ deleg_pc = "steps" /\ deleg_done < Len(deleg_steps)
    /\ ~invalid_delegation_step(DelegStep)
    /\ ~site_not_found(DelegLookup)
    /\ DelegHandled(DelegMessage("delegated", DelegStep.target, {}))
    /\ sub_agents' = Append(sub_agents, DelegStep.target)
    /\ pages_opened' = pages_opened + 1
    /\ pages_closed' = pages_opened'

\* Lines 548-553: new_page raised; there is no page to close.
DelegNewPageFails ==
    /\ deleg_pc = "steps" /\ deleg_done < Len(deleg_steps)
    /\ ~invalid_delegation_step(DelegStep)
    /\ ~site_not_found(DelegLookup)
    /\ DelegHandled(DelegMessage("delegation_failed", DelegStep.target, {}))
    /\ UNCHANGED <<sub_agents, pages_opened, pages_closed>>

\* run line 395: `continue` once every step was handled.
DelegReturn ==
    /\ deleg_pc = "steps"
    /\ deleg_done = Len(deleg_steps)
    /\ deleg_pc' = "next_turn"
    /\ UNCHANGED <<agent_delegation_site_list, deleg_steps, deleg_done, deleg_messages,
                   sub_agents, pages_opened, pages_closed>>
    /\ UNCHANGED notDelegVars

DelegNext ==
    \/ DelegInvalidStep
    \/ DelegSiteNotFound
    \/ DelegRuns
    \/ DelegNewPageFails
    \/ DelegReturn

(***************************************************************************)
(* Tool registration: which callable a tool name is dispatched to.         *)
(***************************************************************************)
MaxTools == 2
MaxMcpTools == 1

\* A callable: the name tool_name(fn) gives it, and its identity.
ToolNames == {"add", "sub"}
Callables == [tool_name : ToolNames, fn : {"f1", "f2"}]
McpCallables == [tool_name : ToolNames, fn : {"proxy"}]

\* The methods MCPToolRegistry defines.
MCPToolRegistryMethods ==
    {"aclose", "refresh", "as_openai_tools", "as_anthropic_tools",
     "as_gemini_function_declarations", "as_async_python_proxy_tools", "execute", "has",
     "list_function_names"}

\* make_registry(tools): `registry[name] = t` in list order, so the last tool
\* of a name stays.
registry_of(tools) ==
    [n \in {tools[i].tool_name : i \in 1..Len(tools)} |->
        LET hits == {i \in 1..Len(tools) : tools[i].tool_name = n}
        IN  tools[CHOOSE i \in hits : \A j \in hits : j <= i].fn]

\* _merge_tools, lines 201-207: the proxies are added when the registry call
\* succeeds; a missing method raises AttributeError, which is logged.
merged(native, mcp) ==
    IF "as_python_proxy_tools" \in MCPToolRegistryMethods THEN native \o mcp ELSE native

\* _merge_tools, lines 209-218: de-dupe by name; a name seen before is skipped.
deduped(tools) ==
    SelectSeq([i \in 1..Len(tools) |->
                  [tool |-> tools[i],
                   seen |-> \E j \in 1..(i - 1) : tools[j].tool_name = tools[i].tool_name]],
              LAMBDA e : ~e.seen)

\* registry.get(name) in _execute_single
dispatch(tools, name) ==
    IF name \in DOMAIN registry_of(tools) THEN registry_of(tools)[name] ELSE "unknown"

RegIdle ==
    /\ native_tools = <<>>
    /\ mcp_funcs = <<>>
    /\ reg_caller = "direct"
    /\ agent_tools = <<>>
    /\ reg_call_name = "add"
    /\ dispatched_to = "none"
    /\ reg_pc = "idle"

RegStart ==
    /\ native_tools \in SeqsUpTo(Callables, MaxTools)
    /\ mcp_funcs \in SeqsUpTo(McpCallables, MaxMcpTools)
    /\ reg_caller \in {"agent", "direct"}
    /\ agent_tools = <<>>
    /\ reg_call_name \in ToolNames
    /\ dispatched_to = "none"
    /\ reg_pc = IF reg_caller = "agent" THEN "merge" ELSE "execute"

RegInputsUnchanged == UNCHANGED <<native_tools, mcp_funcs, reg_caller, reg_call_name>>

\* NavigationAgent._merge_tools
MergeTools ==
    /\ reg_pc = "merge"
    /\ agent_tools' = [i \in 1..Len(deduped(merged(native_tools, mcp_funcs))) |->
                          deduped(merged(native_tools, mcp_funcs))[i].tool]
    /\ reg_pc' = "execute"
    /\ RegInputsUnchanged
    /\ UNCHANGED dispatched_to
    /\ UNCHANGED notRegVars

\* run: execute_tool_calls(llm_response_json, tools=self.tools, ...)
ExecuteAgentTools ==
    /\ reg_pc = "execute"
    /\ reg_caller = "agent"
    /\ dispatched_to' = dispatch(agent_tools, reg_call_name)
    /\ reg_pc' = "done"
    /\ RegInputsUnchanged
    /\ UNCHANGED agent_tools
    /\ UNCHANGED notRegVars

\* execute_tool_calls called with the native tools followed by the proxies.
ExecuteGivenTools ==
    /\ reg_pc = "execute"
    /\ reg_caller = "direct"
    /\ dispatched_to' = dispatch(native_tools \o mcp_funcs, reg_call_name)
    /\ reg_pc' = "done"
    /\ RegInputsUnchanged
    /\ UNCHANGED agent_tools
    /\ UNCHANGED notRegVars

RegNext ==
    \/ MergeTools
    \/ ExecuteAgentTools
    \/ ExecuteGivenTools

(***************************************************************************)
(* Remote tool capabilities: the session's cache and the registry's        *)
(* refresh.                                                                *)
(***************************************************************************)
MaxServerChanges == 2
MaxRefreshes == 2

McpToolNames == {"read_file", "write_file"}

NoRefresh == [by |-> "none", server_tools |-> {}]

\* refresh_capabilities: `self._tools = self._norm_tools(await
\* self._rpc_list_tools())`, or [] when the request raises.
rpc_list_tools(answered) == IF answered THEN server_tools ELSE {}

CapIdle ==
    /\ server_tools = {}
    /\ session_tools = {}
    /\ by_fn = {}
    /\ rpc_calls = 0
    /\ last_refresh = NoRefresh
    /\ server_changes = 0
    /\ refreshes = 0
    /\ cap_pc = "idle"

\* A session object for a server that has some tools; nothing is cached yet.
CapStart ==
    /\ server_tools \in SUBSET McpToolNames
    /\ session_tools = {}
    /\ by_fn = {}
    /\ rpc_calls = 0
    /\ last_refresh = NoRefresh
    /\ server_changes = 0
    /\ refreshes = 0
    /\ cap_pc = "new"

\* connect(): the probe answered, and refresh_capabilities fills the cache.
Connect ==
    /\ cap_pc = "new"
    /\ session_tools' = rpc_list_tools(TRUE)
    /\ rpc_calls' = rpc_calls + 1
    /\ cap_pc' = "connected"
    /\ UNCHANGED <<server_tools, by_fn, last_refresh, server_changes, refreshes>>
    /\ UNCHANGED notCapVars

\* The server gains or loses tools.
ServerToolsChange ==
    /\ cap_pc = "connected"
    /\ server_changes < MaxServerChanges
    /\ \E ts \in SUBSET McpToolNames :
          /\ ts # server_tools
          /\ server_tools' = ts
    /\ server_changes' = server_changes + 1
    /\ UNCHANGED <<session_tools, by_fn, rpc_calls, last_refresh, refreshes, cap_pc>>
    /\ UNCHANGED notCapVars

\* MCPToolRegistry.refresh: _by_fn is rebuilt from manager.list_tools(sid),
\* which returns the session's list(self._tools).
RegistryRefresh ==
    /\ cap_pc = "connected"
    /\ refreshes < MaxRefreshes
    /\ by_fn' = session_tools
    /\ last_refresh' = [by |-> "registry", server_tools |-> server_tools]
    /\ refreshes' = refreshes + 1
    /\ UNCHANGED <<server_tools, session_tools, rpc_calls, server_changes, cap_pc>>
    /\ UNCHANGED notCapVars

\* _BaseMCPClientSession.refresh_capabilities called on the session itself.
RefreshCapabilities ==
    /\ cap_pc = "connected"
    /\ refreshes < MaxRefreshes
    /\ \E answered \in BOOLEAN : session_tools' = rpc_list_tools(answered)
    /\ rpc_calls' = rpc_calls + 1
    /\ last_refresh' = [by |-> "session", server_tools |-> server_tools]
    /\ refreshes' = refreshes + 1
    /\ UNCHANGED <<server_tools, by_fn, server_changes, cap_pc>>
    /\ UNCHANGED notCapVars

CapNext ==
    \/ Connect
    \/ ServerToolsChange
    \/ RegistryRefresh
    \/ RefreshCapabilities

(***************************************************************************)
(* Batch mode: the rows of the CSV file run as tasks under one semaphore.  *)
(***************************************************************************)
MaxTabs == 2
MaxBatchTasks == 3

\* Semaphore.acquire letting a task in when the value is already 0.
semaphore_free_inclusive(value) == value >= 0

\* Semaphore.acquire returns at once only while the value is positive.
semaphore_free(value) == value > 0

BatchIdle ==
    /\ num_of_tabs = 0
    /\ semaphore = 0
    /\ workers = <<>>
    /\ batch_pc = "idle"

\* run_batch_csv has read the file: one _worker per row that is to run, all
\* handed to asyncio.gather.
BatchStart ==
    /\ num_of_tabs \in 1..MaxTabs
    /\ semaphore = num_of_tabs
    /\ workers \in {[i \in 1..n |-> "waiting"] : n \in 1..MaxBatchTasks}
    /\ batch_pc = "gather"

\* _worker: `async with semaphore` is entered; run_single_task starts.
WorkerEnters(i) ==
    /\ batch_pc = "gather"
    /\ workers[i] = "waiting"
    /\ semaphore_free(semaphore)
    /\ semaphore' = semaphore - 1
    /\ workers' = [workers EXCEPT ![i] = "running"]
    /\ UNCHANGED <<num_of_tabs, batch_pc>>
    /\ UNCHANGED notBatchVars

\* run_single_task returns; the semaphore is released.
WorkerReturns(i) ==
    /\ batch_pc = "gather"
    /\ workers[i] = "running"
    /\ semaphore' = semaphore + 1
    /\ workers' = [workers EXCEPT ![i] = "done"]
    /\ UNCHANGED <<num_of_tabs, batch_pc>>
    /\ UNCHANGED notBatchVars

\* run_single_task raises; the semaphore is released and gather raises in
\* run_batch_csv, while the other workers go on.
WorkerRaises(i) ==
    /\ batch_pc = "gather"
    /\ workers[i] = "running"
    /\ semaphore' = semaphore + 1
    /\ workers' = [workers EXCEPT ![i] = "raised"]
    /\ batch_pc' = "raised"
    /\ UNCHANGED num_of_tabs
    /\ UNCHANGED notBatchVars

\* asyncio.gather returns: every worker is done.
GatherReturns ==
    /\ batch_pc = "gather"
    /\ \A i \in 1..Len(workers) : workers[i] = "done"
    /\ batch_pc' = "returned"
    /\ UNCHANGED <<num_of_tabs, semaphore, workers>>
    /\ UNCHANGED notBatchVars

BatchNext ==
    \/ \E i \in 1..Len(workers) : WorkerEnters(i)
    \/ \E i \in 1..Len(workers) : WorkerReturns(i)
    \/ \E i \in 1..Len(workers) : WorkerRaises(i)
    \/ GatherReturns

(***************************************************************************)
(* Page text: the contents of the lines and their duplicate indices.  A    *)
(* content is a sequence of characters, "||" standing for the two bars;    *)
(* the frame name, the coordinates, the xpath and the locator string of a  *)
(* line are copied as they are and left out.                               *)
(***************************************************************************)
MaxSegments == 3

\* The contents the page script reports: a label, a label with an index
\* written on the page, a combobox with its options, a checkbox.
SegContents ==
    { <<"A">>,
      <<"[", "A", "]", "1">>,
      <<"{", "{", " ", "a", "}", "}", " ", "||", " ", "x">>,
      <<"c">> }

\* 0 for plain text, 1 for a clickable element, 2 for an expandable one.
Segments == [enclose : 0..2, content : SegContents]

DigitChars == <<"0", "1", "2", "3", "4", "5", "6", "7", "8", "9">>

\* str(n) of a natural number.
RECURSIVE str_int(_)
str_int(n) ==
    IF n < 10 THEN <<DigitChars[n + 1]>>
    ELSE str_int(n \div 10) \o <<DigitChars[(n % 10) + 1]>>

\* extract_text_from_frame: the content of a segment's line.
text_content(seg) ==
    IF seg.enclose = 0 THEN seg.content
    ELSE IF seg.enclose = 2 THEN <<"[", "[">> \o seg.content \o <<"]", "]">>
    ELSE <<"[">> \o seg.content \o <<"]">>

\* content.split("||", 1): the place of the first "||", 0 when there is none.
first_bars(content) ==
    IF \E i \in 1..Len(content) : content[i] = "||"
    THEN CHOOSE i \in 1..Len(content) :
            /\ content[i] = "||"
            /\ \A j \in 1..(i - 1) : content[j] # "||"
    ELSE 0

\* _process_select_option_content(content)
process_select_option_content(content) ==
    LET i == first_bars(content)
        first == strip(SubSeq(content, 1, i - 1))
        remainder == strip(SubSeq(content, i + 1, Len(content)))
        braced ==
            /\ Len(first) >= 4
            /\ SubSeq(first, 1, 2) = <<"{", "{">>
            /\ SubSeq(first, Len(first) - 1, Len(first)) = <<"}", "}">>
    IN  IF i = 0 THEN [first |-> strip(content), remainder |-> <<>>]
        ELSE [first |-> IF braced
                        THEN <<"{", "{">> \o strip(SubSeq(first, 3, Len(first) - 2))
                                 \o <<"}", "}">>
                        ELSE first,
              remainder |-> remainder]

\* The checkbox and radio marks; "c" stands for the four of them.
Icons == {<<"c">>}

\* is_included_to_duplicate(content)
is_included_to_duplicate(content) ==
    \/ /\ content # <<>>
       /\ Head(content) \in {"[", "{"}
       /\ content[Len(content)] \in {"]", "}"}
    \/ content \in Icons

\* The content a line is counted and looked up under: the group "content" of
\* TEXT_LINE_PATTERN, stripped, up to its first "||".
content_of(line) == process_select_option_content(strip(line)).first

\* First pass: content_count.get(content, 0)
content_count(text, content) ==
    IF is_included_to_duplicate(content)
    THEN Cardinality({i \in 1..Len(text) : content_of(text[i]) = content})
    ELSE 0

\* Second pass: content_occurrences[content] at line i.
occurence_index(text, i) ==
    Cardinality({j \in 1..i : content_of(text[j]) = content_of(text[i])})

\* Second pass: f'{content}{occurence_index}{remainder}'
new_content(text, i) ==
    LET parts == process_select_option_content(strip(text[i]))
        remainder == IF parts.remainder # <<>>
                     THEN <<"||", " ">> \o parts.remainder ELSE <<>>
    IN  parts.first \o str_int(occurence_index(text, i)) \o remainder

is_duplicate(text, i) == content_count(text, content_of(text[i])) > 1

\* process_duplicate_content(text)
process_duplicate_content(text) ==
    [i \in 1..Len(text) |->
        IF is_duplicate(text, i) THEN new_content(text, i) ELSE strip(text[i])]

DupIdle ==
    /\ segments = <<>>
    /\ full_text = <<>>
    /\ distilled_text = <<>>
    /\ duplicate_text_mapping = {}
    /\ dup_pc = "idle"

\* get_full_text is called on a page; _reset has emptied the mappings.
DupStart ==
    /\ segments \in UNION {[1..n -> Segments] : n \in 1..MaxSegments}
    /\ full_text = <<>>
    /\ distilled_text = <<>>
    /\ duplicate_text_mapping = {}
    /\ dup_pc = "segments"

\* extract_text_from_frame: one line per segment.
ExtractTextFromFrame ==
    /\ dup_pc = "segments"
    /\ full_text' = [i \in 1..Len(segments) |-> text_content(segments[i])]
    /\ dup_pc' = "extracted"
    /\ UNCHANGED <<segments, distilled_text, duplicate_text_mapping>>
    /\ UNCHANGED notDupVars

\* get_full_text: process_duplicate_content(full_text)
ProcessDuplicateContent ==
    /\ dup_pc = "extracted"
    /\ distilled_text' = process_duplicate_content(full_text)
    /\ duplicate_text_mapping' =
           {new_content(full_text, i) :
               i \in {j \in 1..Len(full_text) : is_duplicate(full_text, j)}}
    /\ dup_pc' = "processed"
    /\ UNCHANGED <<segments, full_text>>
    /\ UNCHANGED notDupVars

DupNext ==
    \/ ExtractTextFromFrame
    \/ ProcessDuplicateContent

(***************************************************************************)
(* Replay: _retry_replay_get_locator_from_text, called when the locator of *)
(* the first step is not found while using_recording is set, and where the *)
(* next turn takes its decision from.                                      *)
(***************************************************************************)
MaxRetryHistory == 2
max_retries == 3

\* What may be left of the recording when the first locator is looked up.
RetryMessages ==
    {UserMsg("success"), UserMsg("error"), UserMsg("text"),
     AssistantMsg(Decision("SEQUENCE"))}

RetryHistories ==
    {NoHistory} \cup {History(ms) : ms \in SeqsUpTo(RetryMessages, MaxRetryHistory)}

\* `for attempt in range(1, max_retries + 1)` with one attempt too many.
retry_again_inclusive(attempt_) == attempt_ <= max_retries

\* `for attempt in range(1, max_retries + 1)`: there is another attempt after
\* attempt_ of them.
retry_again(attempt_) == attempt_ < max_retries

RetryIdle ==
    /\ retry_using = FALSE
    /\ retry_history = NoHistory
    /\ last_turn = FALSE
    /\ attempt = 0
    /\ retry_sleeps = 0
    /\ locator = "none"
    /\ retries_failed = FALSE
    /\ recorded_value = "none"
    /\ next_source = "none"
    /\ retry_pc = "idle"

\* Line 436: get_locator_from_text found no locator for the first step of a
\* turn of a record-and-replay run.
RetryStart ==
    /\ retry_using \in BOOLEAN
    /\ retry_history \in RetryHistories
    /\ last_turn \in BOOLEAN
    /\ attempt = 0
    /\ retry_sleeps = 0
    /\ locator = "none"
    /\ retries_failed = FALSE
    /\ recorded_value = "none"
    /\ next_source = "none"
    /\ retry_pc = "first_locator_missing"

RetryKeeps == UNCHANGED <<last_turn, next_source>>

RecordedKept == UNCHANGED recorded_value

\* Line 438: `if step_idx == 1 and self.using_recording`
FirstLocatorMissing ==
    /\ retry_pc = "first_locator_missing"
    /\ retry_pc' = IF retry_using THEN "look_at_recording" ELSE "hard_fail"
    /\ UNCHANGED <<retry_using, retry_history, attempt, retry_sleeps, locator,
                   retries_failed>>
    /\ RetryKeeps
    /\ RecordedKept
    /\ UNCHANGED notRetryVars

\* Lines 566-571: the next recorded message is popped; the retry goes on only
\* when it is a user message whose result is "success".
LookAtRecording ==
    /\ retry_pc = "look_at_recording"
    /\ LET recorded == get_user_response_json_from_recorded_history(retry_history)
       IN  /\ retry_history' = recorded.hist
           /\ recorded_value' = recorded.value
           /\ retry_pc' = IF recorded.value = "success" THEN "loop" ELSE "hard_fail"
    /\ UNCHANGED <<retry_using, attempt, retry_sleeps, locator, retries_failed>>
    /\ RetryKeeps
    /\ UNCHANGED notRetryVars

\* Lines 576-578: the next attempt sleeps one second and reads the page again.
RetrySleeps ==
    /\ retry_pc = "loop"
    /\ retry_again(attempt)
    /\ attempt' = attempt + 1
    /\ retry_sleeps' = retry_sleeps + 1
    /\ retry_pc' = "resolve"
    /\ UNCHANGED <<retry_using, retry_history, locator, retries_failed>>
    /\ RetryKeeps
    /\ RecordedKept
    /\ UNCHANGED notRetryVars

\* Lines 581-584 and 440-446: the attempt finds the locator; the steps of the
\* turn are taken.
RetryResolves ==
    /\ retry_pc = "resolve"
    /\ locator' = "found"
    /\ retry_pc' = "turn_over"
    /\ UNCHANGED <<retry_using, retry_history, attempt, retry_sleeps, retries_failed>>
    /\ RetryKeeps
    /\ RecordedKept
    /\ UNCHANGED notRetryVars

\* Lines 580-586: get_locator_from_text finds nothing, or raises.
RetryMisses ==
    /\ retry_pc = "resolve"
    /\ retry_pc' = "loop"
    /\ UNCHANGED <<retry_using, retry_history, attempt, retry_sleeps, locator,
                   retries_failed>>
    /\ RetryKeeps
    /\ RecordedKept
    /\ UNCHANGED notRetryVars

\* Lines 589-591: no attempt is left; replay is switched off.
RetryGivesUp ==
    /\ retry_pc = "loop"
    /\ ~retry_again(attempt)
    /\ retry_using' = FALSE
    /\ retries_failed' = TRUE
    /\ retry_pc' = "hard_fail"
    /\ UNCHANGED <<retry_history, attempt, retry_sleeps, locator>>
    /\ RetryKeeps
    /\ RecordedKept
    /\ UNCHANGED notRetryVars

\* Lines 448-455: the model is told that the first target was not found; no
\* step of the turn is taken.
HardFail ==
    /\ retry_pc = "hard_fail"
    /\ retry_pc' = "turn_over"
    /\ UNCHANGED <<retry_using, retry_history, attempt, retry_sleeps, locator,
                   retries_failed>>
    /\ RetryKeeps
    /\ RecordedKept
    /\ UNCHANGED notRetryVars

\* `for turns in range(1, max_turns + 1)`: that was the last turn.
RetryLoopEnds ==
    /\ retry_pc = "turn_over"
    /\ last_turn
    /\ retry_pc' = "returned"
    /\ UNCHANGED <<retry_using, retry_history, attempt, retry_sleeps, locator,
                   retries_failed>>
    /\ RetryKeeps
    /\ RecordedKept
    /\ UNCHANGED notRetryVars

\* Lines 309-317 of the next turn: the decision is a recorded response.
NextTurnReplays ==
    /\ retry_pc = "turn_over"
    /\ ~last_turn
    /\ retry_using
    /\ LET fetched == get_llm_response_json_from_recorded_history(retry_history)
       IN  /\ fetched.found
           /\ retry_history' = fetched.hist
           /\ retry_using' = fetched.using
    /\ next_source' = "replay"
    /\ retry_pc' = "decided"
    /\ UNCHANGED <<last_turn, attempt, retry_sleeps, locator, retries_failed,
                   recorded_value>>
    /\ UNCHANGED notRetryVars

\* Lines 319-330 of the next turn: no recorded response, the model is called;
\* replay is armed again when recorded messages are left.
NextTurnLive ==
    /\ retry_pc = "turn_over"
    /\ ~last_turn
    /\ LET fetched == IF retry_using
                      THEN get_llm_response_json_from_recorded_history(retry_history)
                      ELSE [found |-> FALSE, msg |-> TaskGoalMsg, hist |-> retry_history,
                            using |-> FALSE, npop |-> 0]
       IN  /\ ~fetched.found
           /\ retry_history' = fetched.hist
           /\ retry_using' = (truthy(fetched.hist) \/ fetched.using)
    /\ next_source' = "live"
    /\ retry_pc' = "decided"
    /\ UNCHANGED <<last_turn, attempt, retry_sleeps, locator, retries_failed,
                   recorded_value>>
    /\ UNCHANGED notRetryVars

RetryNext ==
    \/ FirstLocatorMissing
    \/ LookAtRecording
    \/ RetrySleeps
    \/ RetryResolves
    \/ RetryMisses
    \/ RetryGivesUp
    \/ HardFail
    \/ RetryLoopEnds
    \/ NextTurnReplays
    \/ NextTurnLive

(***************************************************************************)
(* A turn with steps: run resolves the locators of the steps in order and  *)
(* hands the steps to take_actions.  A step is described by what the page  *)
(* makes of it: whether get_locator_from_text finds its target (for the    *)
(* first step of a replayed turn, after the retries) and whether the       *)
(* target is expandable; what happens when the action is performed; and,   *)
(* when the locator matches several elements, the index of the first       *)
(* visible one (-1 when it matches one element).                           *)
(***************************************************************************)
MaxActSteps == 3
MaxVisibleIndex == 3

ActSteps ==
    {[resolves |-> "none", behaviour |-> "ok", visible_at |-> -1]}
    \cup [resolves : {"expandable"}, behaviour : {"ok", "not_actionable"},
          visible_at : {-1}]
    \cup [resolves : {"plain"},
          behaviour : {"ok", "raises", "fill_changes", "not_actionable"},
          visible_at : {-1}]
    \cup [resolves : {"plain"}, behaviour : {"ok"}, visible_at : 0..MaxVisibleIndex]

\* take_actions(page, steps, num_steps=len(steps))
num_steps == Len(act_steps)

\* A take_actions that goes on after an expandable element.
skips_after_never(is_expandable_element) == FALSE

\* `if is_expandable_element: skip_subsequent_actions = True`
skips_after(is_expandable_element) == is_expandable_element

\* `i` where `if i == num_steps` reads it: the position in locator_actions,
\* unless `for i in range(element_count)` has run in this iteration and left
\* the index of the first visible element in it.
loop_variable(i, visible_at) == IF visible_at >= 0 THEN visible_at ELSE i

\* `if step_idx == 1`: the first locator failed, a hard fail.
hard_fail(step_idx_) == step_idx_ = 1

\* `if steps and steps[0].get("locator")`
has_first_locator(locators_) == locators_ # <<>> /\ locators_[1]

ActIdle ==
    /\ act_steps = <<>>
    /\ step_idx = 0
    /\ locators = <<>>
    /\ expandable_marks = <<>>
    /\ act_i = 0
    /\ skip_subsequent_actions = FALSE
    /\ act_results = <<>>
    /\ acted = <<>>
    /\ act_messages = <<>>
    /\ act_total_errors = 0
    /\ observations = 0
    /\ act_pc = "idle"

\* Line 421: a turn has steps to perform; no step carries a locator yet.
ActStart ==
    /\ act_steps \in UNION {[1..n -> ActSteps] : n \in 1..MaxActSteps}
    /\ step_idx = 1
    /\ locators = [n \in 1..Len(act_steps) |-> FALSE]
    /\ expandable_marks = [n \in 1..Len(act_steps) |-> FALSE]
    /\ act_i = 0
    /\ skip_subsequent_actions = FALSE
    /\ act_results = [n \in 1..Len(act_steps) |-> "none"]
    /\ acted = <<>>
    /\ act_messages = <<>>
    /\ act_total_errors = 0
    /\ observations = 0
    /\ act_pc = "resolving"

ActInputs == UNCHANGED <<act_steps, observations>>

ActNotStarted == UNCHANGED <<act_i, skip_subsequent_actions, act_results, acted>>

\* Lines 430-436: the locator is found and the target is not expandable.
ResolveFound ==
    /\ act_pc = "resolving"
    /\ act_steps[step_idx].resolves = "plain"
    /\ locators' = [locators EXCEPT ![step_idx] = TRUE]
    /\ step_idx' = step_idx + 1
    /\ act_pc' = IF step_idx = Len(act_steps) THEN "resolved" ELSE "resolving"
    /\ UNCHANGED <<expandable_marks, act_messages, act_total_errors>>
    /\ ActNotStarted /\ ActInputs
    /\ UNCHANGED notActVars

\* Lines 430-435: the locator is found and the target is expandable; the
\* steps after it are not looked up.
ResolveExpandable ==
    /\ act_pc = "resolving"
    /\ act_steps[step_idx].resolves = "expandable"
    /\ locators' = [locators EXCEPT ![step_idx] = TRUE]
    /\ expandable_marks' = [expandable_marks EXCEPT ![step_idx] = TRUE]
    /\ act_pc' = "resolved"
    /\ UNCHANGED <<step_idx, act_messages, act_total_errors>>
    /\ ActNotStarted /\ ActInputs
    /\ UNCHANGED notActVars

\* Lines 448-452 and 455: the first locator is not found; the model is told.
ResolveFirstMissing ==
    /\ act_pc = "resolving"
    /\ act_steps[step_idx].resolves = "none"
    /\ hard_fail(step_idx)
    /\ act_messages' = Append(act_messages, "first_target_not_found")
    /\ act_total_errors' = act_total_errors + 1
    /\ act_pc' = "resolved"
    /\ UNCHANGED <<step_idx, locators, expandable_marks>>
    /\ ActNotStarted /\ ActInputs
    /\ UNCHANGED notActVars

\* Lines 453-455: a later locator is not found; the rest is not looked up.
ResolveLaterMissing ==
    /\ act_pc = "resolving"
    /\ act_steps[step_idx].resolves = "none"
    /\ ~hard_fail(step_idx)
    /\ act_pc' = "resolved"
    /\ UNCHANGED <<step_idx, locators, expandable_marks, act_messages,
                   act_total_errors>>
    /\ ActNotStarted /\ ActInputs
    /\ UNCHANGED notActVars

\* Line 459: `if steps and steps[0].get("locator")` fails; the turn is over.
NoActions ==
    /\ act_pc = "resolved"
    /\ ~has_first_locator(locators)
    /\ act_pc' = "turn_over"
    /\ UNCHANGED <<step_idx, locators, expandable_marks, act_messages,
                   act_total_errors>>
    /\ ActNotStarted /\ ActInputs
    /\ UNCHANGED notActVars

\* Lines 459-462: take_actions is called with all the steps.
CallTakeActions ==
    /\ act_pc = "resolved"
    /\ has_first_locator(locators)
    /\ act_i' = 1
    /\ act_pc' = "acting"
    /\ UNCHANGED <<step_idx, locators, expandable_marks, skip_subsequent_actions,
                   act_results, acted, act_messages, act_total_errors>>
    /\ ActInputs
    /\ UNCHANGED notActVars

ActResolved == UNCHANGED <<step_idx, locators, expandable_marks, act_messages,
                           act_total_errors>>

\* The loop of take_actions goes to the next action, or is over.
ActContinue ==
    IF act_i = Len(act_steps)
    THEN act_pc' = "acted" /\ act_i' = act_i
    ELSE act_pc' = "acting" /\ act_i' = act_i + 1

ActBreak == act_pc' = "acted" /\ act_i' = act_i

\* playwright_util lines 447-450: the action before was on an expandable
\* element; this one is told to wait and the loop ends.
ActSkipped ==
    /\ act_pc = "acting"
    /\ skip_subsequent_actions
    /\ act_results' = [act_results EXCEPT ![act_i] = "wait"]
    /\ ActBreak
    /\ UNCHANGED <<skip_subsequent_actions, acted>>
    /\ ActResolved /\ ActInputs
    /\ UNCHANGED notActVars

\* Lines 455-457: what every other iteration does first.
ActExamined ==
    /\ act_pc = "acting"
    /\ ~skip_subsequent_actions
    /\ skip_subsequent_actions' = skips_after(expandable_marks[act_i])

\* Lines 468-471: the step has no locator.
ActNoLocator ==
    /\ ActExamined
    /\ ~locators[act_i]
    /\ act_results' = [act_results EXCEPT ![act_i] = "error"]
    /\ ActContinue
    /\ UNCHANGED acted
    /\ ActResolved /\ ActInputs
    /\ UNCHANGED notActVars

\* Lines 489-492, 505-518: no element, no visible element among several
\* (element.first is not callable), or a disabled element.
ActNotActionable ==
    /\ ActExamined
    /\ locators[act_i]
    /\ act_steps[act_i].behaviour = "not_actionable"
    /\ act_results' = [act_results EXCEPT ![act_i] = "error"]
    /\ ActContinue
    /\ UNCHANGED acted
    /\ ActResolved /\ ActInputs
    /\ UNCHANGED notActVars

\* Lines 495-503 and 520-623: the action is performed, or raises; then
\* `if i == num_steps: break`.
ActPerformed ==
    /\ ActExamined
    /\ locators[act_i]
    /\ act_steps[act_i].behaviour \in {"ok", "raises"}
    /\ IF act_steps[act_i].behaviour = "ok"
       THEN /\ act_results' = [act_results EXCEPT ![act_i] = "success"]
            /\ acted' = Append(acted, act_i)
       ELSE /\ act_results' = [act_results EXCEPT ![act_i] = "error"]
            /\ acted' = acted
    /\ IF loop_variable(act_i, act_steps[act_i].visible_at) = num_steps
       THEN ActBreak
       ELSE ActContinue
    /\ ActResolved /\ ActInputs
    /\ UNCHANGED notActVars

\* Lines 575-580: the fill changed the layout of the page; the loop ends.
ActFillChangedLayout ==
    /\ ActExamined
    /\ locators[act_i]
    /\ act_steps[act_i].behaviour = "fill_changes"
    /\ act_results' = [act_results EXCEPT ![act_i] = "note"]
    /\ acted' = Append(acted, act_i)
    /\ ActBreak
    /\ ActResolved /\ ActInputs
    /\ UNCHANGED notActVars

\* Line 463, _process_locator_action_results: the errors are counted and the
\* results appended as one user message.
ProcessLocatorActionResults ==
    /\ act_pc = "acted"
    /\ act_total_errors' = act_total_errors
           + Cardinality({n \in 1..Len(act_results) : act_results[n] = "error"})
    /\ act_messages' = Append(act_messages, "results")
    /\ act_pc' = "turn_over"
    /\ UNCHANGED <<step_idx, locators, expandable_marks, act_i,
                   skip_subsequent_actions, act_results, acted>>
    /\ ActInputs
    /\ UNCHANGED notActVars

\* Lines 295-307 of the next turn: the page is read again.
NextTurnObserves ==
    /\ act_pc = "turn_over"
    /\ observations' = observations + 1
    /\ act_pc' = "observed"
    /\ UNCHANGED <<act_steps, step_idx, locators, expandable_marks, act_i,
                   skip_subsequent_actions, act_results, acted, act_messages,
                   act_total_errors>>
    /\ UNCHANGED notActVars

ActNext ==
    \/ ResolveFound
    \/ ResolveExpandable
    \/ ResolveFirstMissing
    \/ ResolveLaterMissing
    \/ NoActions
    \/ CallTakeActions
    \/ ActSkipped
    \/ ActNoLocator
    \/ ActNotActionable
    \/ ActPerformed
    \/ ActFillChangedLayout
    \/ ProcessLocatorActionResults
    \/ NextTurnObserves

(***************************************************************************)
(* wait_for_network_quiet (playwright_util.py:101-203).  Time is counted   *)
(* in ticks: quiet_ms is quiet_ticks ticks and timeout_ms is timeout_ticks *)
(* ticks.  Page events arrive between ticks, in any order.                 *)
(***************************************************************************)
quiet_ticks == 2
timeout_ticks == 5
MaxThreshold == 1
MaxInflight == 2
MaxNoiseOpen == 1

\* A URL is the sequence of the fragments the filters look for.
NoisyUrlWords == {"google-analytics", "gtm", "segment", "mixpanel", "amplitude",
                  "hotjar", "sentry", "datadog", "clarity"}
LongLivedWords == {"/ws", "eventsource", "sse"}
NetUrls == {<<"app", "api">>, <<"cdn", "gtm">>, <<"app", "/ws">>}

\* is_noise, lines 120-131 (the caller passes no ignore_patterns)
is_noise(url) ==
    \E k \in 1..Len(url) : url[k] \in NoisyUrlWords \cup LongLivedWords

\* arm_timer_if_quiet, lines 141-148: the handle the closure holds afterwards
armed_timer(inflight_) == IF inflight_ <= max_inflight THEN quiet_ticks ELSE -1

\* the ticks for which the count has stayed within the threshold, after an event
quiet_for_after(inflight_) == IF inflight_ <= max_inflight THEN quiet_for ELSE 0

NetIdle ==
    /\ max_inflight = 0
    /\ inflight = 0
    /\ quiet_timer = -1
    /\ quiet_event = FALSE
    /\ noise_open = 0
    /\ net_elapsed = 0
    /\ quiet_for = 0
    /\ had_quiet_period = FALSE
    /\ net_pc = "idle"

NetStart ==
    /\ max_inflight \in 0..MaxThreshold
    /\ inflight = 0
    /\ quiet_timer = -1
    /\ quiet_event = FALSE
    /\ noise_open = 0
    /\ net_elapsed = 0
    /\ quiet_for = 0
    /\ had_quiet_period = FALSE
    /\ net_pc = "called"

\* lines 170-188: attach the listeners, take `start`, arm the first timer
AttachAndArm ==
    /\ net_pc = "called"
    /\ quiet_timer' = armed_timer(inflight)
    /\ net_pc' = "waiting"
    /\ UNCHANGED <<max_inflight, inflight, quiet_event, noise_open, net_elapsed,
                   quiet_for, had_quiet_period>>
    /\ UNCHANGED notNetVars

\* on_request, lines 150-159
OnRequest(url) ==
    /\ net_pc = "waiting"
    /\ IF is_noise(url)
       THEN /\ noise_open < MaxNoiseOpen
            /\ noise_open' = noise_open + 1
            /\ UNCHANGED <<inflight, quiet_event, quiet_timer, quiet_for>>
       ELSE /\ inflight < MaxInflight
            /\ inflight' = inflight + 1
            /\ quiet_event' = FALSE
            /\ quiet_timer' = -1
            /\ quiet_for' = quiet_for_after(inflight + 1)
            /\ UNCHANGED noise_open
    /\ UNCHANGED <<max_inflight, net_elapsed, had_quiet_period, net_pc>>
    /\ UNCHANGED notNetVars

\* on_done, lines 161-168, for requestfinished and requestfailed alike
OnDone(url) ==
    /\ net_pc = "waiting"
    /\ IF is_noise(url)
       THEN /\ noise_open > 0
            /\ noise_open' = noise_open - 1
            /\ UNCHANGED <<inflight, quiet_event, quiet_timer, quiet_for>>
       ELSE /\ inflight > 0
            /\ inflight' = inflight - 1
            /\ quiet_timer' = armed_timer(inflight - 1)
            /\ quiet_event' = (IF inflight - 1 <= max_inflight THEN quiet_event ELSE FALSE)
            /\ quiet_for' = quiet_for_after(inflight - 1)
            /\ UNCHANGED noise_open
    /\ UNCHANGED <<max_inflight, net_elapsed, had_quiet_period, net_pc>>
    /\ UNCHANGED notNetVars

\* One tick passes and neither the timer nor the timeout is due.
NetTick ==
    /\ net_pc = "waiting"
    /\ quiet_timer # 1
    /\ net_elapsed + 1 < timeout_ticks
    /\ net_elapsed' = net_elapsed + 1
    /\ quiet_timer' = (IF quiet_timer > 0 THEN quiet_timer - 1 ELSE quiet_timer)
    /\ quiet_for' = (IF inflight <= max_inflight THEN quiet_for + 1 ELSE 0)
    /\ had_quiet_period' =
           (had_quiet_period \/ (inflight <= max_inflight /\ quiet_for + 1 >= quiet_ticks))
    /\ UNCHANGED <<max_inflight, inflight, quiet_event, noise_open, net_pc>>
    /\ UNCHANGED notNetVars

\* The call_later handle comes due: quiet_event.set, and the wait returns
\* (lines 145, 189-191, 199-203).
QuietTimerFires ==
    /\ net_pc = "waiting"
    /\ quiet_timer = 1
    /\ net_elapsed + 1 <= timeout_ticks
    /\ net_elapsed' = net_elapsed + 1
    /\ quiet_timer' = -1
    /\ quiet_event' = TRUE
    /\ quiet_for' = (IF inflight <= max_inflight THEN quiet_for + 1 ELSE 0)
    /\ had_quiet_period' =
           (had_quiet_period \/ (inflight <= max_inflight /\ quiet_for + 1 >= quiet_ticks
                                 /\ net_elapsed + 1 < timeout_ticks))
    /\ net_pc' = "quiet"
    /\ UNCHANGED <<max_inflight, inflight, noise_open>>
    /\ UNCHANGED notNetVars

\* asyncio.wait_for gives up at timeout_ms: TimeoutError("network-idle timeout")
\* (lines 189, 192-198).  A timer due at the same instant may lose the race.
NetTimeout ==
    /\ net_pc = "waiting"
    /\ net_elapsed + 1 = timeout_ticks
    /\ net_elapsed' = net_elapsed + 1
    /\ quiet_timer' = -1
    /\ quiet_for' = (IF inflight <= max_inflight THEN quiet_for + 1 ELSE 0)
    /\ net_pc' = "timeout"
    /\ UNCHANGED <<max_inflight, inflight, quiet_event, noise_open, had_quiet_period>>
    /\ UNCHANGED notNetVars

NetNext ==
    \/ AttachAndArm
    \/ \E url \in NetUrls : OnRequest(url)
    \/ \E url \in NetUrls : OnDone(url)
    \/ NetTick
    \/ QuietTimerFires
    \/ NetTimeout

(***************************************************************************)
(* Tab tracking: run (_navigation_agent.py:253-255, 295-307), the popup    *)
(* listener (184-197) and CLOSE_CURRENT_TAB (870-878).  Pages are numbered *)
(* in the order the browser opens them; page 1 is the page run is given.   *)
(***************************************************************************)
MaxPages == 3
MaxTabTurns == 4
NoPage == 0

\* list.remove(x): drop the first element equal to x
list_remove(list, x) ==
    LET first == CHOOSE k \in 1..Len(list) :
                     list[k] = x /\ \A j \in 1..(k - 1) : list[j] # x
    IN  [k \in 1..(Len(list) - 1) |-> IF k < first THEN list[k] ELSE list[k + 1]]

\* `self.tabs[-1] if self.tabs else None`, with the first tab as the variant
last_remaining_first(tabs_) == IF tabs_ # <<>> THEN tabs_[1] ELSE NoPage
last_remaining(tabs_) == IF tabs_ # <<>> THEN tabs_[Len(tabs_)] ELSE NoPage

NoClose == [before |-> <<>>, closed |-> NoPage, after |-> <<>>, current |-> NoPage]

TabIdle ==
    /\ tabs = <<>>
    /\ current_working_tab = NoPage
    /\ page = NoPage
    /\ open_pages = {}
    /\ next_page = 1
    /\ tab_turns = 0
    /\ tab_messages = <<>>
    /\ last_close = NoClose
    /\ tab_pc = "idle"

\* lines 249-255: the initial page is loaded and tracked
TabStart ==
    /\ tabs = <<1>>
    /\ current_working_tab = 1
    /\ page = 1
    /\ open_pages = {1}
    /\ next_page = 2
    /\ tab_turns = 0
    /\ tab_messages = <<>>
    /\ last_close = NoClose
    /\ tab_pc = "turn_start"

\* lines 295-304: the top of a turn switches to the current working tab
TurnStarts ==
    /\ tab_pc = "turn_start"
    /\ tab_turns < MaxTabTurns
    /\ current_working_tab # NoPage
    /\ tab_turns' = tab_turns + 1
    /\ page' = current_working_tab
    /\ tab_messages' = (IF page # current_working_tab
                        THEN Append(tab_messages, "I switched to the tab")
                        ELSE tab_messages)
    /\ tab_pc' = "in_turn"
    /\ UNCHANGED <<tabs, current_working_tab, open_pages, next_page, last_close>>
    /\ UNCHANGED notTabVars

\* lines 298-300 with current_working_tab None: `page.url` raises, and the
\* handler of run (lines 466-467) ends the navigation
TurnStartsWithoutTab ==
    /\ tab_pc = "turn_start"
    /\ tab_turns < MaxTabTurns
    /\ current_working_tab = NoPage
    /\ tab_turns' = tab_turns + 1
    /\ page' = NoPage
    /\ tab_pc' = "failed"
    /\ UNCHANGED <<tabs, current_working_tab, open_pages, next_page,
                   tab_messages, last_close>>
    /\ UNCHANGED notTabVars

\* the loop runs out of turns
TurnsExhausted ==
    /\ tab_pc = "turn_start"
    /\ tab_turns = MaxTabTurns
    /\ tab_pc' = "done"
    /\ UNCHANGED <<tabs, current_working_tab, page, open_pages, next_page,
                   tab_turns, tab_messages, last_close>>
    /\ UNCHANGED notTabVars

\* handle_popup, lines 185-194: a tracked page opens a popup while the turn
\* awaits the page or the model
HandlePopup ==
    /\ tab_pc = "in_turn"
    /\ next_page <= MaxPages
    /\ \E opener \in open_pages : \E k \in 1..Len(tabs) : tabs[k] = opener
    /\ tabs' = Append(tabs, next_page)
    /\ current_working_tab' = next_page
    /\ open_pages' = open_pages \cup {next_page}
    /\ next_page' = next_page + 1
    /\ UNCHANGED <<page, tab_turns, tab_messages, last_close, tab_pc>>
    /\ UNCHANGED notTabVars

\* CLOSE_CURRENT_TAB, lines 870-878, and the `continue` of line 363
CloseCurrentTab ==
    /\ tab_pc = "in_turn"
    /\ LET remaining == list_remove(tabs, page)
       IN  /\ tabs' = remaining
           /\ current_working_tab' = last_remaining(remaining)
           /\ last_close' = [before |-> tabs, closed |-> page, after |-> remaining,
                             current |-> last_remaining(remaining)]
    /\ open_pages' = open_pages \ {page}
    /\ tab_messages' = Append(tab_messages, "I closed the tab.")
    /\ tab_pc' = "turn_start"
    /\ UNCHANGED <<page, next_page, tab_turns>>
    /\ UNCHANGED notTabVars

\* any other turn: it leaves the tab list alone
OtherTurn ==
    /\ tab_pc = "in_turn"
    /\ tab_pc' = "turn_start"
    /\ UNCHANGED <<tabs, current_working_tab, page, open_pages, next_page,
                   tab_turns, tab_messages, last_close>>
    /\ UNCHANGED notTabVars

TabNext ==
    \/ TurnStarts
    \/ TurnStartsWithoutTab
    \/ TurnsExhausted
    \/ HandlePopup
    \/ CloseCurrentTab
    \/ OtherTurn

(***************************************************************************)
(* Delegation depth: run dispatching DELEGATE_TO_AGENT                     *)
(* (_navigation_agent.py:393-395) to _handle_delegate_to_agent (490-559),  *)
(* which builds a NavigationAgent and awaits its run.  An agent on the     *)
(* stack is its site list, the turns it has used, the delegation steps of  *)
(* its current turn that are still to be handled and the number of         *)
(* messages delegation has appended to its chat history.                   *)
(***************************************************************************)
MaxAgents == 3
MaxPendingSteps == 1

SiteA == [site_name |-> <<"A">>, has_url |-> TRUE]
NestSiteLists == {<<>>, <<SiteA>>, <<[site_name |-> <<"A">>, has_url |-> FALSE]>>}
NestStepChoices == {[target |-> <<"a">>, has_value |-> TRUE],
                    [target |-> <<"b">>, has_value |-> TRUE],
                    [target |-> <<"a">>, has_value |-> FALSE]}

\* The agent_delegation_site_list of the agent built at lines 533-541: the
\* constructor is called without one and takes `None`, `or []` (line 119).
delegate_agent_site_list_inherited(own_list) == own_list
delegate_agent_site_list(own_list) == <<>>

NewAgent(site_list) ==
    [agent_delegation_site_list |-> site_list, turns |-> 0, pending |-> <<>>,
     chat_history |-> 0]

Running == agent_stack[Len(agent_stack)]
PendingLookup ==
    site_get(site_index(Running.agent_delegation_site_list),
             site_key(Running.pending[1].target))
ReplaceRunning(agent) == [agent_stack EXCEPT ![Len(agent_stack)] = agent]

NestIdle ==
    /\ agent_stack = <<>>
    /\ spawned = 0

\* the top-level agent is about to run
NestStart ==
    /\ agent_stack \in {<<NewAgent(l)>> : l \in NestSiteLists}
    /\ spawned = 0

\* a turn of the running agent that does not delegate
NestOtherTurn ==
    /\ agent_stack # <<>>
    /\ Running.pending = <<>>
    /\ Running.turns < max_turns
    /\ agent_stack' = ReplaceRunning([Running EXCEPT !.turns = @ + 1])
    /\ UNCHANGED spawned
    /\ UNCHANGED notNestVars

\* lines 387-395: the model answers DELEGATE_TO_AGENT with steps
NestDelegateTurn(steps) ==
    /\ agent_stack # <<>>
    /\ Running.pending = <<>>
    /\ Running.turns < max_turns
    /\ agent_stack' = ReplaceRunning([Running EXCEPT !.turns = @ + 1, !.pending = steps])
    /\ UNCHANGED spawned
    /\ UNCHANGED notNestVars

\* lines 505-522: the step is invalid or names no configured site with a url
NestStepRefused ==
    /\ agent_stack # <<>>
    /\ Running.pending # <<>>
    /\ \/ invalid_delegation_step(Running.pending[1])
       \/ site_not_found(PendingLookup)
    /\ agent_stack' = ReplaceRunning([Running EXCEPT !.pending = Tail(@),
                                                     !.chat_history = @ + 1])
    /\ UNCHANGED spawned
    /\ UNCHANGED notNestVars

\* lines 524-543: the sub-agent is built and its run is awaited
NestSpawn ==
    /\ agent_stack # <<>>
    /\ Len(agent_stack) < MaxAgents
    /\ Running.pending # <<>>
    /\ ~invalid_delegation_step(Running.pending[1])
    /\ ~site_not_found(PendingLookup)
    /\ agent_stack' =
           Append(agent_stack,
                  NewAgent(delegate_agent_site_list(Running.agent_delegation_site_list)))
    /\ spawned' = spawned + 1
    /\ UNCHANGED notNestVars

\* the sub-agent's run returns or raises (lines 543-559); the result is
\* appended to the history of its parent, whose step is handled
NestSubAgentReturns ==
    /\ Len(agent_stack) > 1
    /\ Running.pending = <<>>
    /\ agent_stack' =
           [k \in 1..(Len(agent_stack) - 1) |->
               IF k = Len(agent_stack) - 1
               THEN [agent_stack[k] EXCEPT !.pending = Tail(@), !.chat_history = @ + 1]
               ELSE agent_stack[k]]
    /\ UNCHANGED spawned
    /\ UNCHANGED notNestVars

NestNext ==
    \/ NestOtherTurn
    \/ \E steps \in SeqsUpTo(NestStepChoices, MaxPendingSteps) \ {<<>>} : NestDelegateTurn(steps)
    \/ NestStepRefused
    \/ NestSpawn
    \/ NestSubAgentReturns

(***************************************************************************)
(* Specifications.                                                         *)
(***************************************************************************)
ToolsInit == ToolsStart /\ FsIdle /\ OtpIdle /\ ResIdle /\ MaskIdle /\ RunIdle /\ SubstIdle /\ StoreIdle /\ BmIdle /\ McpIdle /\ HilIdle /\ DelegIdle /\ RegIdle /\ CapIdle /\ BatchIdle /\ DupIdle /\ RetryIdle /\ ActIdle /\ NetIdle /\ TabIdle /\ NestIdle

SpecTools == ToolsInit /\ [][ToolsNext]_vars

FsInit == FsStart /\ ToolsIdle /\ OtpIdle /\ ResIdle /\ MaskIdle /\ RunIdle /\ SubstIdle /\ StoreIdle /\ BmIdle /\ McpIdle /\ HilIdle /\ DelegIdle /\ RegIdle /\ CapIdle /\ BatchIdle /\ DupIdle /\ RetryIdle /\ ActIdle /\ NetIdle /\ TabIdle /\ NestIdle

SpecFs == FsInit /\ [][FsNext]_vars

OtpInit == OtpStart /\ ToolsIdle /\ FsIdle /\ ResIdle /\ MaskIdle /\ RunIdle /\ SubstIdle /\ StoreIdle /\ BmIdle /\ McpIdle /\ HilIdle /\ DelegIdle /\ RegIdle /\ CapIdle /\ BatchIdle /\ DupIdle /\ RetryIdle /\ ActIdle /\ NetIdle /\ TabIdle /\ NestIdle

SpecOtp == OtpInit /\ [][OtpNext]_vars

ResInit == ResStart /\ ToolsIdle /\ FsIdle /\ OtpIdle /\ MaskIdle /\ RunIdle /\ SubstIdle /\ StoreIdle /\ BmIdle /\ McpIdle /\ HilIdle /\ DelegIdle /\ RegIdle /\ CapIdle /\ BatchIdle /\ DupIdle /\ RetryIdle /\ ActIdle /\ NetIdle /\ TabIdle /\ NestIdle

SpecResolver == ResInit /\ [][ResNext]_vars

MaskInit == MaskStart /\ ToolsIdle /\ FsIdle /\ OtpIdle /\ ResIdle /\ RunIdle /\ SubstIdle /\ StoreIdle /\ BmIdle /\ McpIdle /\ HilIdle /\ DelegIdle /\ RegIdle /\ CapIdle /\ BatchIdle /\ DupIdle /\ RetryIdle /\ ActIdle /\ NetIdle /\ TabIdle /\ NestIdle

SpecMask == MaskInit /\ [][MaskNext]_vars

RunInit == RunStart /\ ToolsIdle /\ FsIdle /\ OtpIdle /\ ResIdle /\ MaskIdle /\ SubstIdle /\ StoreIdle /\ BmIdle /\ McpIdle /\ HilIdle /\ DelegIdle /\ RegIdle /\ CapIdle /\ BatchIdle /\ DupIdle /\ RetryIdle /\ ActIdle /\ NetIdle /\ TabIdle /\ NestIdle

SpecRun == RunInit /\ [][RunNext]_vars

SubstInit == SubstStart /\ ToolsIdle /\ FsIdle /\ OtpIdle /\ ResIdle /\ MaskIdle /\ RunIdle /\ StoreIdle /\ BmIdle /\ McpIdle /\ HilIdle /\ DelegIdle /\ RegIdle /\ CapIdle /\ BatchIdle /\ DupIdle /\ RetryIdle /\ ActIdle /\ NetIdle /\ TabIdle /\ NestIdle

SpecSubst == SubstInit /\ [][SubstNext]_vars

StoreInit == StoreStart /\ ToolsIdle /\ FsIdle /\ OtpIdle /\ ResIdle /\ MaskIdle /\ RunIdle /\ SubstIdle /\ BmIdle /\ McpIdle /\ HilIdle /\ DelegIdle /\ RegIdle /\ CapIdle /\ BatchIdle /\ DupIdle /\ RetryIdle /\ ActIdle /\ NetIdle /\ TabIdle /\ NestIdle

SpecStore == StoreInit /\ [][StoreNext]_vars

BmInit == BmStart /\ ToolsIdle /\ FsIdle /\ OtpIdle /\ ResIdle /\ MaskIdle /\ RunIdle /\ SubstIdle /\ StoreIdle /\ McpIdle /\ HilIdle /\ DelegIdle /\ RegIdle /\ CapIdle /\ BatchIdle /\ DupIdle /\ RetryIdle /\ ActIdle /\ NetIdle /\ TabIdle /\ NestIdle

SpecBrowser == BmInit /\ [][BmNext]_vars

McpInit == McpStart /\ ToolsIdle /\ FsIdle /\ OtpIdle /\ ResIdle /\ MaskIdle /\ RunIdle /\ SubstIdle /\ StoreIdle /\ BmIdle /\ HilIdle /\ DelegIdle /\ RegIdle /\ CapIdle /\ BatchIdle /\ DupIdle /\ RetryIdle /\ ActIdle /\ NetIdle /\ TabIdle /\ NestIdle

SpecMcp == McpInit /\ [][McpNext]_vars

HilInit == HilStart /\ ToolsIdle /\ FsIdle /\ OtpIdle /\ ResIdle /\ MaskIdle /\ RunIdle /\ SubstIdle /\ StoreIdle /\ BmIdle /\ McpIdle /\ DelegIdle /\ RegIdle /\ CapIdle /\ BatchIdle /\ DupIdle /\ RetryIdle /\ ActIdle /\ NetIdle /\ TabIdle /\ NestIdle

SpecHil == HilInit /\ [][HilNext]_vars

\* The event loop runs the agent's task whenever it can take a step: the
\* evaluate call and the sleep return.
SpecHilFair == SpecHil /\ WF_vars(HilAgentNext)

DelegInit == DelegStart /\ ToolsIdle /\ FsIdle /\ OtpIdle /\ ResIdle /\ MaskIdle /\ RunIdle /\ SubstIdle /\ StoreIdle /\ BmIdle /\ McpIdle /\ HilIdle /\ RegIdle /\ CapIdle /\ BatchIdle /\ DupIdle /\ RetryIdle /\ ActIdle /\ NetIdle /\ TabIdle /\ NestIdle

SpecDelegate == DelegInit /\ [][DelegNext]_vars

RegInit == RegStart /\ ToolsIdle /\ FsIdle /\ OtpIdle /\ ResIdle /\ MaskIdle /\ RunIdle /\ SubstIdle /\ StoreIdle /\ BmIdle /\ McpIdle /\ HilIdle /\ DelegIdle /\ CapIdle /\ BatchIdle /\ DupIdle /\ RetryIdle /\ ActIdle /\ NetIdle /\ TabIdle /\ NestIdle

SpecRegistry == RegInit /\ [][RegNext]_vars

CapInit == CapStart /\ ToolsIdle /\ FsIdle /\ OtpIdle /\ ResIdle /\ MaskIdle /\ RunIdle /\ SubstIdle /\ StoreIdle /\ BmIdle /\ McpIdle /\ HilIdle /\ DelegIdle /\ RegIdle /\ BatchIdle /\ DupIdle /\ RetryIdle /\ ActIdle /\ NetIdle /\ TabIdle /\ NestIdle

SpecCaps == CapInit /\ [][CapNext]_vars

BatchInit == BatchStart /\ ToolsIdle /\ FsIdle /\ OtpIdle /\ ResIdle /\ MaskIdle /\ RunIdle /\ SubstIdle /\ StoreIdle /\ BmIdle /\ McpIdle /\ HilIdle /\ DelegIdle /\ RegIdle /\ CapIdle /\ DupIdle /\ RetryIdle /\ ActIdle /\ NetIdle /\ TabIdle /\ NestIdle

SpecBatch == BatchInit /\ [][BatchNext]_vars

DupInit == DupStart /\ ToolsIdle /\ FsIdle /\ OtpIdle /\ ResIdle /\ MaskIdle /\ RunIdle /\ SubstIdle /\ StoreIdle /\ BmIdle /\ McpIdle /\ HilIdle /\ DelegIdle /\ RegIdle /\ CapIdle /\ BatchIdle /\ RetryIdle /\ ActIdle /\ NetIdle /\ TabIdle /\ NestIdle

SpecDup == DupInit /\ [][DupNext]_vars

RetryInit == RetryStart /\ ToolsIdle /\ FsIdle /\ OtpIdle /\ ResIdle /\ MaskIdle /\ RunIdle /\ SubstIdle /\ StoreIdle /\ BmIdle /\ McpIdle /\ HilIdle /\ DelegIdle /\ RegIdle /\ CapIdle /\ BatchIdle /\ DupIdle /\ ActIdle /\ NetIdle /\ TabIdle /\ NestIdle

SpecRetry == RetryInit /\ [][RetryNext]_vars

ActInit == ActStart /\ ToolsIdle /\ FsIdle /\ OtpIdle /\ ResIdle /\ MaskIdle /\ RunIdle /\ SubstIdle /\ StoreIdle /\ BmIdle /\ McpIdle /\ HilIdle /\ DelegIdle /\ RegIdle /\ CapIdle /\ BatchIdle /\ DupIdle /\ RetryIdle /\ NetIdle /\ TabIdle /\ NestIdle

SpecAct == ActInit /\ [][ActNext]_vars

NetInit == NetStart /\ ToolsIdle /\ FsIdle /\ OtpIdle /\ ResIdle /\ MaskIdle /\ RunIdle /\ SubstIdle /\ StoreIdle /\ BmIdle /\ McpIdle /\ HilIdle /\ DelegIdle /\ RegIdle /\ CapIdle /\ BatchIdle /\ DupIdle /\ RetryIdle /\ ActIdle /\ TabIdle /\ NestIdle

SpecNet == NetInit /\ [][NetNext]_vars

TabInit == TabStart /\ ToolsIdle /\ FsIdle /\ OtpIdle /\ ResIdle /\ MaskIdle /\ RunIdle /\ SubstIdle /\ StoreIdle /\ BmIdle /\ McpIdle /\ HilIdle /\ DelegIdle /\ RegIdle /\ CapIdle /\ BatchIdle /\ DupIdle /\ RetryIdle /\ ActIdle /\ NetIdle /\ NestIdle

SpecTabs == TabInit /\ [][TabNext]_vars

NestInit == NestStart /\ ToolsIdle /\ FsIdle /\ OtpIdle /\ ResIdle /\ MaskIdle /\ RunIdle /\ SubstIdle /\ StoreIdle /\ BmIdle /\ McpIdle /\ HilIdle /\ DelegIdle /\ RegIdle /\ CapIdle /\ BatchIdle /\ DupIdle /\ RetryIdle /\ ActIdle /\ NetIdle /\ TabIdle

SpecNest == NestInit /\ [][NestNext]_vars

\* The event loop keeps running the agent that is awaited.
SpecNestFair == SpecNest /\ WF_vars(NestNext)

\* C2: execute_tool_calls returns one result per call of the payload, in the
\* payload's order, with the id of the call at the same position.
C2_ResultsAlignWithCalls ==
    exec_pc = "returned" =>
        /\ Len(tool_results) = Len(tool_calls_payload)
        /\ \A i \in 1..Len(tool_results) :
             tool_results[i].id = tool_calls_payload[i].id

\* C5: the path the filesystem tool operates on is the root or a descendant of
\* it, and the normalised subpath is relative and free of ".." segments, for
\* every input path (absolute, relative, with backslashes, with ".." anywhere).
C5_PathStaysUnderRoot ==
    /\ fs_pc \in {"normalized", "done", "raised"} =>
          /\ fs_sub # <<>>
          /\ Head(fs_sub) # "/"
          /\ DotDot \notin Range(split(fs_sub))
    /\ fs_pc = "done" =>
          /\ Len(fs_target) >= Len(base)
          /\ \A i \in 1..Len(base) : fs_target[i] = base[i]

\* A path with a ".." segment that would climb above the root was resolved.
C5_Witness ==
    /\ fs_pc = "done"
    /\ fs_path # None
    /\ DotDot \in Range(split(replace_backslash(strip(fs_path))))
    /\ "\\" \in Range(fs_path)
    /\ fs_target = base

\* The digit-per-box steps of the turn: fill steps with target {_n} and value "*".
DigitBoxes == {i \in 1..Len(otp_steps) :
                 /\ otp_steps[i].action = "fill"
                 /\ matches_digit_box(otp_steps[i].target)
                 /\ otp_steps[i].value = Star}

DigitBoxIndices == {digit_index(otp_steps[i].target) : i \in DigitBoxes}

\* Box n of every digit-per-box step holds the n-th character of the code.
PerDigitApplied ==
    \A i \in DigitBoxes :
        LET n == digit_index(otp_steps[i].target) IN
        /\ n <= Len(otp_code)
        /\ otp_steps_after[i] = [otp_steps[i] EXCEPT !.value = <<otp_code[n]>>]

PerDigitUnchanged == \A i \in DigitBoxes : otp_steps_after[i] = otp_steps[i]

\* C8 as stated: the digits are substituted iff the set of box indices is
\* {1..k} and the code has k characters; otherwise the boxes are unchanged.
C8_PerDigitIffIndexSet ==
    (otp_pc = "returned" /\ DigitBoxes # {}) =>
        LET ok == \E k \in 1..MaxSteps :
                    DigitBoxIndices = 1..k /\ Len(otp_code) = k
        IN IF ok THEN PerDigitApplied ELSE PerDigitUnchanged

\* C8 (amended): the digits are substituted iff the k digit-per-box steps carry
\* the indices 1..k, each once, and the code has k characters; then box n holds
\* the n-th character; otherwise the digit-per-box steps are unchanged.
C8_PerDigitIffEachIndexOnce ==
    (otp_pc = "returned" /\ DigitBoxes # {}) =>
        LET k == Cardinality(DigitBoxes)
            ok == DigitBoxIndices = 1..k /\ Len(otp_code) = k
        IN IF ok THEN PerDigitApplied ELSE PerDigitUnchanged

\* Three boxes given out of order were filled from a three-character code.
C8_Witness ==
    /\ otp_pc = "returned"
    /\ Cardinality(DigitBoxes) = 3
    /\ otp_steps[1].target = "{_2}"
    /\ otp_steps_after[1].value = <<"8">>
    /\ otp_steps_after[2].value # Star
    /\ otp_steps_after[3].value # Star


\* The steps of the returned response.
ReturnedSteps == res_out.steps

CredentialValues == {"alice", "s3cret"}

\* C6: a credential value appears in a step only when the current URL is known
\* and its registrable domain equals that of the credential's stored URL; when
\* the domains differ or the current URL is unknown no step carries a credential.
C6_SecretOnlyOnMatchingDomain ==
    \A i \in 1..Len(res_out.steps) :
        res_out.steps[i].value \in CredentialValues =>
            /\ res_current_url # NoUrl
            /\ res_site_secrets.url # NoUrl
            /\ get_base_domain(res_current_url) = get_base_domain(res_site_secrets.url)
            /\ res_input.steps[i].resolve_value \in {"UsernameAssistant", "PasswordAssistant"}

\* A username placeholder resolved on a different host of the same registrable domain.
C6_Witness ==
    /\ res_pc = "returned"
    /\ res_current_url = <<"login", "sbc", "com">>
    /\ res_site_secrets.url = <<"www", "SBC", "com">>
    /\ \E i \in 1..Len(res_out.steps) :
          /\ res_input.steps[i].resolve_value = "UsernameAssistant"
          /\ res_out.steps[i].value = "alice"


\* C7: unmask(mask(T)) gives back every token of T, the masked ones restored
\* and the others unchanged, whatever digits the masker drew. The brackets
\* unmask removes from a text that is not itself a bracketed target are left
\* out of the comparison.
C7_MaskRoundTrip ==
    mask_pc = "unmasked" =>
        /\ Len(unmasked_tokens) = Len(mask_text)
        /\ \A i \in 1..Len(mask_text) :
              remove_brackets(unmasked_tokens[i]) = remove_brackets(mask_text[i])


\* C1: one call of run never executes more than max_turns turns.
C1_TurnBound == turns <= max_turns

\* The loop ran all its turns without a success or an exception.
C1_Witness ==
    /\ run_pc = "done"
    /\ turns = max_turns
    /\ turn_source = "live"
    /\ ~task_successful

\* C3: every assistant message with tool_calls in the chat history is followed
\* at once, in the declared order, by one Tool message per declared call, and
\* the Tool message for a declared call id carries that id and that call's
\* own result.
C3_ToolMessageForEveryCall ==
    \A i \in 1..Len(chat_history) :
        (chat_history[i].role = "assistant" /\ chat_history[i].kind = "tool_calls") =>
            LET calls == chat_history[i].tool_calls
            IN \A j \in 1..Len(calls) :
                  calls[j].id # "" =>
                      /\ i + j <= Len(chat_history)
                      /\ chat_history[i + j].role = "tool"
                      /\ chat_history[i + j].call_id = calls[j].id
                      /\ chat_history[i + j].result.id = calls[j].id
                      /\ chat_history[i + j].result.name = calls[j].name

\* The positions of the assistant messages of the recording, in order.
AssistantPositions ==
    SelectSeq([i \in 1..Len(recording) |-> i], LAMBDA i : recording[i].role = "assistant")

\* C9: the responses replayed are, in order and with none skipped or repeated,
\* a prefix of the recorded assistant messages, and every recorded assistant
\* message popped from the recording has been replayed.
C9_ReplayIsFifo ==
    /\ Len(replayed) <= Len(AssistantPositions)
    /\ \A k \in 1..Len(replayed) : replayed[k] = AssistantPositions[k]
    /\ \A p \in 1..popped : recording[p].role = "assistant" => p \in Range(replayed)

\* The turn in which replay fetches a recorded SUCCESS.
C10_FetchExecutesNothing ==
    (~success_fetched /\ success_fetched') =>
        /\ chat_history' = chat_history
        /\ task_successful' = task_successful
        /\ ~using_recording'
        /\ recorded_chat_history'.is_none

\* A turn taken after replay fetched a recorded SUCCESS.
C10_LaterTurnsAreLive ==
    (success_fetched /\ turns' = turns + 1) =>
        /\ turn_source' # "replay"
        /\ turn_kind' = "SUCCESS" => reviewed'

\* C10: when the recorded response fetched during replay says SUCCESS, replay
\* is disarmed and stays disarmed for the rest of the run, nothing is executed
\* or appended for that response, and every later turn takes its decision from
\* a live model call, whose SUCCESS goes through the review.
C10_RecordedSuccessDisarmsReplay ==
    /\ [](success_fetched => ~using_recording)
    /\ [][C10_FetchExecutesNothing /\ C10_LaterTurnsAreLive]_vars

\* After a recorded SUCCESS the next turn asked the model, which said SUCCESS,
\* and the review agreed.
C10_Witness ==
    /\ success_fetched
    /\ turn_source = "live"
    /\ turn_kind = "SUCCESS"
    /\ reviewed
    /\ task_successful
    /\ replayed # <<>>

\* The placeholder, if any, whose recorded value occurs at position i of s and
\* that has a current value: 0 when there is none.
placeholder_at(s, i, recorded, current) ==
    LET hits == {j \in 1..Len(recorded) :
                    /\ dict_get(current, recorded[j].k) # None
                    /\ starts_with(s, i, recorded[j].v)}
    IN  IF hits = {} THEN 0 ELSE CHOOSE j \in hits : \A h \in hits : j <= h

\* The recorded text with every occurrence of a recorded value replaced by
\* the current value of its placeholder, the text so introduced left alone.
RECURSIVE substituted_once(_, _, _, _)
substituted_once(s, i, recorded, current) ==
    IF i > Len(s) THEN <<>>
    ELSE LET j == placeholder_at(s, i, recorded, current)
         IN  IF j = 0
             THEN <<s[i]>> \o substituted_once(s, i + 1, recorded, current)
             ELSE dict_get(current, recorded[j].k)
                    \o substituted_once(s, i + Len(recorded[j].v), recorded, current)

\* C11: after the replay substitution every message's text is the recorded
\* text with each occurrence of a placeholder's recorded value replaced by its
\* current value and nothing else changed: text that one substitution
\* introduced is not rewritten by another.
C11_SubstitutionIsLiteral ==
    (rr_pc = "returned" /\ replacing_applies) =>
        \A i \in 1..Len(rr_loaded) :
            /\ replaced_history[i].is_str = rr_loaded[i].is_str
            /\ replaced_history[i].content =
                  IF rr_loaded[i].is_str
                  THEN substituted_once(rr_loaded[i].content, 1,
                                        recorded_history_variables, current_variables)
                  ELSE rr_loaded[i].content

\* The (site_name, task_hash, parameterized_hash) tuple of a row.
tuple_of(row) == <<row.site_name, row.task_hash, row.parameterized_task_hash>>

\* C12: after any sequence of save_recording calls the table holds at most one
\* row per (site_name, task_hash, parameterized_hash) tuple, an absent
\* parameterized_hash included, and that row is the one saved last for the tuple.
C12_OneRowPerTuple ==
    /\ \A i, j \in 1..Len(replay_tasks) :
          tuple_of(replay_tasks[i]) = tuple_of(replay_tasks[j]) => i = j
    /\ \A i \in 1..Len(replay_tasks) :
          \A k \in 1..Len(saved) :
              tuple_of(saved[k]) = tuple_of(replay_tasks[i])
                  => saved[k].task_id <= replay_tasks[i].task_id

\* C13: at the end of a record-and-replay run the chat history is persisted
\* if and only if save_successful_task_only is false or the task ended with a
\* reviewed success.
C13_PersistedIffAllowed ==
    (run_pc = "done" /\ record_and_replay) =>
        (save_recording_called <=> (~save_successful_task_only \/ task_successful))

\* The exceptions that stand for the loss of the browser.
FatalErrors == {"TargetClosedError"}

\* C14: the turn loop is unwound by an exception only when the browser was
\* lost (or the process is shut down): a malformed model output, a failing or
\* nameless tool call, an unresolvable value or locator, a failed page action
\* or an invalid scroll direction never ends the loop.
C14_OnlyFatalErrorsUnwind ==
    outcome = "error_in_loop" => raised \in FatalErrors

\* How a run ends without success for reasons of the task.
TaskLevelFailures ==
    {"turn_budget", "handoff_timeout", "error_in_loop", "no_url", "navigation_failed"}

\* C15: after a task-level failure the run has returned a non-empty answer
\* and the process exits with code 0; exit code 1 comes only from a fatal
\* browser or runtime failure.
C15_TaskFailureExitsZero ==
    run_pc = "exited" =>
        /\ outcome \in TaskLevelFailures => (answer # "" /\ exit_code = 0)
        /\ exit_code = 1 => outcome \notin TaskLevelFailures \cup {"success"}

\* C16: however often and however interleaved stop() is called, the browser
\* context of a manager is closed at most once, its process is terminated at
\* most once, and no call returns on `stopped` before the shutdown is over.
C16_StopOnceAndComplete ==
    /\ \A m \in 1..MaxManagers :
          /\ managers[m].context_closes <= 1
          /\ managers[m].terminates <= 1
    /\ early_returns = 0

\* A manager with something of a browser open.
live(m) ==
    /\ managers[m].created
    /\ \/ managers[m].browser_context = "open"
       \/ managers[m].chrome_process = "running"

\* C17: under any interleaving of get_instance, stop_instance and signals at
\* most one manager is live at a time, and a task that is starting or
\* shutting down a manager holds the class lock.
C17_SingletonUnderLock ==
    /\ Cardinality({m \in 1..MaxManagers : live(m)}) <= 1
    /\ \A t \in BmTasks :
          task_pc[t] \in {"launching", "connecting", "closing", "stopping_playwright"}
              => bm_lock = t

\* C18: in attach mode no manager spawns a browser process, a connected
\* manager is connected to the configured endpoint, and no process is
\* terminated on shutdown.
C18_AttachModeSpawnsNothing ==
    attach_mode(bm_cdp_endpoint) =>
        \A m \in 1..MaxManagers :
            /\ managers[m].spawned = 0
            /\ managers[m].terminates = 0
            /\ managers[m].connected_to \in {"", bm_cdp_endpoint.hostport}

\* The calls of the batch that exceeded the per-call timeout.
TimedOut == {i \in 1..Len(behaviours) : behaviours[i] = "slow" /\ timeout > 0}

\* No call of the batch was cancelled from outside.
NoneInterrupted == \A i \in 1..Len(behaviours) : behaviours[i] # "interrupted"

C20_SchemaViolationRecorded ==
    ~validates(mcp_arguments, mcp_schema) =>
        /\ mcp_server_calls = 0
        /\ ~mcp_raised
        /\ mcp_pc \in {"result", "next_turn"} =>
              /\ ~tool_result.ok
              /\ tool_result.error = "Schema validation failed"
        /\ mcp_pc = "next_turn" => tool_message = ok_false("Schema validation failed")

\* A live turn whose decision is SUCCESS.
live_success_turn ==
    turns' = turns + 1 /\ turn_kind' = "SUCCESS" /\ turn_source' = "live"

\* C21: upon a SUCCESS response of the model a review is made: "Goal Met"
\* exits the loop with the answer and marks the run successful; anything else
\* appends the feedback as a user message and the loop goes on.
C21_ReviewDecides ==
    live_success_turn =>
        /\ reviewed'
        /\ review_decision' \in ReviewDecisions
        /\ review_decision' = "Goal Met" =>
              /\ task_successful'
              /\ run_pc' = "finally"
              /\ outcome' = "success"
              /\ answer' = reasoning'
        /\ review_decision' # "Goal Met" =>
              /\ ~task_successful'
              /\ run_pc' = "running"
              /\ outcome' = "none"
              /\ Len(chat_history') = Len(chat_history) + 2
              /\ chat_history'[Len(chat_history')] = UserMsg("text")

\* C21: the run is never marked successful without a "Goal Met" review.
C21_SuccessIsReviewed ==
    /\ [](task_successful => (reviewed /\ review_decision = "Goal Met"))
    /\ [][C21_ReviewDecides]_vars

C21_Witness ==
    /\ task_successful
    /\ review_decision = "Goal Met"
    /\ turns > 1
    /\ run_pc = "done"

\* C22: the hand-off wait polls at most hil_polling_times times, one sleep per
\* unanswered poll; it resumes only when the flag was cleared or the page
\* navigated, and a timeout comes only after all polls and gives the timeout
\* answer.
C22_PollsBounded ==
    /\ polls <= hil_polling_times
    /\ sleeps <= polls
    /\ polls + polling_times = hil_polling_times
    /\ hil_pc = "resumed" =>
          (surfariMode \in {"true", "undefined"} \/ page_context = "destroyed")
    /\ hil_pc = "timeout" =>
          /\ polls = hil_polling_times
          /\ sleeps = polls
          /\ hil_answer = TimeoutAnswer

\* C22: a poll that finds the flag cleared or the page navigated resumes.
C22_PollResumes ==
    (/\ polls' = polls + 1
     /\ \/ page_context = "destroyed"
        \/ page_context = "alive" /\ surfariMode \in {"true", "undefined"})
    => hil_pc' = "resumed"

target_matches_no_site ==
    \A i \in 1..Len(agent_delegation_site_list) :
        lower_name(strip(agent_delegation_site_list[i].site_name))
            # lower_name(strip(DelegStep.target))

\* The names of the configured sites as the message lists them.
provided_sites ==
    {lower_name(strip(agent_delegation_site_list[i].site_name)) :
        i \in 1..Len(agent_delegation_site_list)} \ {<<>>}

\* A step is handled: nothing is spawned or opened, and "Site not found for
\* delegation: <target>. It must match one of the provided sites: <sites>" is
\* appended.
refused_as_not_found ==
    /\ sub_agents' = sub_agents
    /\ pages_opened' = pages_opened
    /\ deleg_messages' = Append(deleg_messages,
          DelegMessage("site_not_found", DelegStep.target, provided_sites))
    /\ deleg_pc' = "steps"

\* C23 as stated: a DELEGATE_TO_AGENT step whose target matches no configured
\* site spawns no sub-agent, opens no page and appends the site-not-found
\* message.
C23_UnknownSiteRefused_AsStated ==
    [][(deleg_done' = deleg_done + 1 /\ target_matches_no_site)
         => refused_as_not_found]_vars

\* C23: a DELEGATE_TO_AGENT step that has a target and a value, and whose
\* target matches no configured site, spawns no sub-agent, opens no page and
\* appends the site-not-found message; the loop goes on.
C23_UnknownSiteRefused ==
    /\ [][(/\ deleg_done' = deleg_done + 1
           /\ DelegStep.target # <<>>
           /\ DelegStep.has_value
           /\ target_matches_no_site)
          => refused_as_not_found]_vars
    /\ [](deleg_pc = "next_turn" => deleg_done = Len(deleg_steps))

C23_Witness ==
    /\ deleg_pc = "next_turn"
    /\ Len(agent_delegation_site_list) = 1
    /\ agent_delegation_site_list[1] = [site_name |-> <<" ", "A">>, has_url |-> TRUE]
    /\ deleg_steps = << [target |-> <<"b">>, has_value |-> TRUE] >>
    /\ deleg_messages = << DelegMessage("site_not_found", <<"b">>, {<<"a">>}) >>
    /\ sub_agents = <<>>

\* The calls that have been started and have not returned.
in_flight == {i \in started : results[i] = Pending}

\* C24: with parallel set and more than one call, all calls of the batch are
\* under way before any of them has finished; otherwise the calls run in the
\* given order, one at a time, call i+1 starting only after call i finished.
C24_Scheduling ==
    exec_pc \in {"running", "returned", "raised"} =>
        IF parallel /\ Len(raw_calls) > 1
        THEN started = 1..Len(raw_calls)
        ELSE /\ Cardinality(in_flight) <= 1
             /\ \A i \in started : \A j \in 1..(i - 1) : j \in started /\ results[j] # Pending
             /\ \A k \in 1..Len(completion_order) : completion_order[k] = k

C24_Witness ==
    /\ exec_pc = "running"
    /\ parallel
    /\ Len(raw_calls) = 2
    /\ in_flight = {1}
    /\ completion_order = <<2>>

\* The callables registered under the called name, in registration order:
\* the native tools first, then the proxies of the remote tools.
registered_under_name ==
    SelectSeq(native_tools \o mcp_funcs, LAMBDA t : t.tool_name = reg_call_name)

\* C25: a tool call whose name several callables are registered under goes to
\* the one registered last.
C25_LastRegistrationWins ==
    (reg_pc = "done" /\ Len(registered_under_name) > 1) =>
        dispatched_to = registered_under_name[Len(registered_under_name)].fn

\* C27: when a refresh of the registry has completed, the tools it lists are
\* the server's tool set as of that refresh.
C27_RefreshRefetches ==
    [][(refreshes' = refreshes + 1 /\ last_refresh'.by = "registry")
         => by_fn' = server_tools]_vars

\* The tasks that are executing run_single_task.
executing == {i \in 1..Len(workers) : workers[i] = "running"}

\* C26: in batch mode at most num_of_tabs tasks are executing at any time.
C26_AtMostNumOfTabs ==
    /\ Cardinality(executing) <= num_of_tabs
    /\ semaphore = num_of_tabs - Cardinality(executing)

C26_Witness ==
    /\ Cardinality(executing) = num_of_tabs
    /\ \E i \in 1..Len(workers) : workers[i] = "waiting"
    /\ \E i \in 1..Len(workers) : workers[i] = "done"

\* The lines of a text whose content is the token k.
lines_with(text, k) == {l \in 1..Len(text) : content_of(text[l]) = k}

\* C28: after duplicate processing, every interactable token k that occurred
\* n > 1 times is replaced by the n tokens k1 .. kn, each of which occurs once
\* in the output, no bare k is left, and a token that occurred once is
\* unchanged.
C28_DuplicateIndexing ==
    dup_pc = "processed" =>
        \A i \in 1..Len(full_text) :
            LET k == content_of(full_text[i])
                n == Cardinality(lines_with(full_text, k))
            IN  is_included_to_duplicate(k) =>
                    IF n > 1
                    THEN /\ \A j \in 1..n :
                              Cardinality(lines_with(distilled_text, k \o str_int(j))) = 1
                         /\ lines_with(distilled_text, k) = {}
                    ELSE distilled_text[i] = full_text[i]

\* The retry loop is over: it returned a locator or gave up.
retry_over == retry_pc \in {"hard_fail", "turn_over", "returned", "decided"}

\* C29: when the first locator of a replayed turn is not found and the next
\* recorded user message shows a success, the locator is looked up again at
\* most 3 times, one second of sleep before each; when every retry fails,
\* replay is switched off and the next decision comes from the live model.
C29_RetryThenLive ==
    /\ attempt <= 3
    /\ retry_sleeps = attempt
    /\ attempt > 0 => recorded_value = "success"
    /\ (recorded_value = "success" /\ retry_over) =>
           \/ locator = "found" /\ attempt \in 1..3 /\ ~retries_failed
           \/ locator = "none" /\ attempt = 3 /\ retries_failed
    /\ (retries_failed /\ retry_pc \in {"hard_fail", "turn_over", "returned"}) =>
           ~retry_using
    /\ (retries_failed /\ retry_pc = "decided") => next_source = "live"

C29_Witness ==
    /\ retries_failed
    /\ attempt = 3
    /\ retry_sleeps = 3
    /\ retry_pc = "decided"
    /\ next_source = "live"
    /\ retry_using

\* The first assistant message of the recording that has not been popped; 0
\* when there is none.
first_unconsumed_assistant ==
    LET rest == {i \in (popped + 1)..Len(recording) : recording[i].role = "assistant"}
    IN  IF rest = {} THEN 0 ELSE CHOOSE i \in rest : \A j \in rest : i <= j

\* A turn of a record-and-replay run that starts with replay switched off: the
\* model is called, and replay is in use again when recorded messages are left.
C30_LiveTurnSwitchesBack ==
    (record_and_replay /\ ~using_recording /\ turns' = turns + 1 /\ run_pc' = "running") =>
        /\ turn_source' = "live"
        /\ truthy(recorded_chat_history) => using_recording'
        /\ ~truthy(recorded_chat_history) => ~using_recording'

\* The turn after a live one takes its decision from the recording.
C30_ReplayResumesWithFirst ==
    (turn_source = "live" /\ turns' = turns + 1 /\ turn_source' = "replay") =>
        /\ using_recording
        /\ first_unconsumed_assistant # 0
        /\ replayed' = Append(replayed, first_unconsumed_assistant)

act_turn_over == act_pc \in {"turn_over", "observed"}

\* The first step whose locator is not found; 0 when every locator is found
\* or the lookup stops at an expandable element before it.
first_missing ==
    LET misses == {n \in 1..Len(act_steps) :
                      /\ act_steps[n].resolves = "none"
                      /\ \A k \in 1..(n - 1) : act_steps[k].resolves = "plain"}
    IN  IF misses = {} THEN 0 ELSE CHOOSE n \in misses : TRUE

\* C31: when the locator of the first step is not found, the turn appends one
\* user message that reports it and ends without a page action; when the
\* locator of a later step is not found, every step resolved before it is
\* still executed, unless a fill before it changed the layout of the page.
C31_FirstFailsHardLaterSoft ==
    act_turn_over =>
        /\ first_missing = 1 =>
              /\ act_messages = <<"first_target_not_found">>
              /\ acted = <<>>
              /\ \A n \in 1..Len(act_results) : act_results[n] = "none"
        /\ first_missing > 1 =>
              \A n \in 1..(first_missing - 1) :
                  (\A k \in 1..(n - 1) : act_steps[k].behaviour # "fill_changes") =>
                      act_results[n] # "none"

\* C32: after a step marked is_expandable_element no later step of the turn
\* acts on the page: the step after it is told to wait, the ones after that
\* are not looked at, and the next turn reads the page again.
C32_StopsAfterExpandable ==
    \A e \in 1..Len(expandable_marks) :
        expandable_marks[e] =>
            /\ \A n \in (e + 1)..Len(act_steps) :
                  /\ \A k \in 1..Len(acted) : acted[k] # n
                  /\ act_results[n] \in {"none", "wait"}
            /\ (act_turn_over /\ act_results[e] # "none" /\ e < Len(act_steps)) =>
                  act_results[e + 1] = "wait"
            /\ act_pc = "observed" => observations = 1

C32_Witness ==
    /\ act_pc = "observed"
    /\ Len(act_steps) = 3
    /\ expandable_marks[1]
    /\ act_steps[2].resolves = "plain"
    /\ acted = <<1>>
    /\ act_results = <<"success", "wait", "none">>

\* C36: take_actions attempts the steps in order and every step up to the one
\* it stops at gets a result; it stops before the end of the list only at a
\* step told to wait after an expandable element or at a fill that changed
\* the layout, also when a target matches several elements.
C36_StopsOnlyWhereItShould ==
    (act_pc \in {"acted", "turn_over", "observed"} /\ act_i >= 1) =>
        /\ \A n \in 1..act_i : act_results[n] # "none"
        /\ \A k \in 1..Len(acted) : k > 1 => acted[k - 1] < acted[k]
        /\ act_i < num_steps => act_results[act_i] \in {"wait", "note"}

\* C33: the wait completes as soon as the count of non-noise in-flight
\* requests has stayed at or below max_inflight for quiet_ms continuously,
\* whatever the sequence of request events, and times out only if no such
\* quiet period occurred within timeout_ms.
C33_QuietAsSoonAsQuiet ==
    /\ (net_pc = "waiting" /\ net_elapsed < timeout_ticks) => quiet_for < quiet_ticks
    /\ net_pc = "timeout" => ~had_quiet_period

\* the tabs of a list, as a set
tab_set(list) == {list[k] : k \in 1..Len(list)}

\* a list without the element x, the order of the others kept
without(list, x) == SelectSeq(list, LAMBDA t : t # x)

\* C34: CLOSE_CURRENT_TAB removes the tab of the turn from the ordered tab
\* list, keeps the other tabs in their order, and makes the last remaining
\* tab the current working tab.
C34_CloseRemovesAndPicksLast ==
    last_close.closed # NoPage =>
        /\ last_close.after = without(last_close.before, last_close.closed)
        /\ Len(last_close.after) = Len(last_close.before) - 1
        /\ last_close.after # <<>> =>
               last_close.current = last_close.after[Len(last_close.after)]

\* a tab that was not the last one was closed and two tabs remain
C34_Witness ==
    /\ last_close.closed # NoPage
    /\ Len(last_close.after) >= 2
    /\ last_close.before[Len(last_close.before)] # last_close.closed

\* C35: at the start of every turn the current working tab is an open page
\* and a member of the tab list, never absent, whatever popups and
\* CLOSE_CURRENT_TAB actions came before, closing the only open tab included.
C35_WorkingTabAlwaysOpenMember ==
    tab_pc = "turn_start" =>
        /\ current_working_tab # NoPage
        /\ current_working_tab \in tab_set(tabs)
        /\ current_working_tab \in open_pages

\* C37: get_instance never hands out a Browser Session Manager whose
\* start() did not complete: a failed start is raised to the caller and a
\* later get_instance starts afresh instead of returning the unstarted
\* instance.
C37_NeverHandsOutUnstarted ==
    [][\A t \in BmTasks :
          GetInstanceExisting(t) => managers[bm_instance].connected_to # ""]_vars

\* C38: when no OTP code could be fetched, the steps that carry the
\* placeholder value "OTP" or "*" do not go on to be executed with it: the
\* literal placeholder is never typed into a field.
C38_PlaceholderNeverTyped ==
    (otp_pc = "returned" /\ otp_code = <<>>) =>
        \A i \in 1..Len(otp_steps_after) :
            (i \in otp_fill_indices(otp_steps) \/ \E p \in digit_steps(otp_steps) : p[2] = i)
                => otp_steps_after[i].value \notin OtpValues

\* the top-level agent is in a turn that delegates
delegating_turn == agent_stack # <<>> /\ agent_stack[1].pending # <<>>

C40_InputUnchanged == res_pc = "returned" => res_resp = res_input

====
